---- MODULE Spec2Model ----
(***************************************************************************)
(* A model of image-manipulator-ai: the Replicate polling client           *)
(* (src/src/lib/replicate.ts), the dashboard card's AI run                  *)
(* (PhotoCard.handleRunAI) and the EXIF orientation normalizer              *)
(* (src/src/lib/imageUtils.ts).                                             *)
(*                                                                         *)
(* Every await of the TypeScript code is a point where the handler is      *)
(* suspended; one action of the model runs a handler from one await to the *)
(* next.                                                                   *)
(***************************************************************************)
EXTENDS Integers, Sequences, FiniteSets, TLC

(* ------------------------------------------------------------------ *)
(* Program constants and model bounds                                  *)
(* ------------------------------------------------------------------ *)

\* const maxAttempts = 120 in runReplicate
maxAttempts == 120

\* The remote job reports 'starting' in at most this many responses before
\* it moves on (the create response counts).
MaxStartingReads == 2

\* Date.now() values a run can see.
MaxTime == 2

VARIABLES
    \* ---- one runReplicate invocation ----
    caller,       \* "none" | "lib" | "card": who invoked runReplicate
    hasProgress,  \* whether an onProgress callback was passed
    pc,           \* "idle" | "create_wait" | "get_wait" | "sleep" | "returned" | "thrown"
    attempts,     \* the local counter 'attempts'
    job,          \* the remote prediction as last reported by the API
    creates,      \* create requests issued
    reads,        \* status reads (getPrediction) issued
    inflight,     \* "none" | "create" | "get": the request awaiting its response
    observed,     \* statuses the API returned, in order (create, then reads)
    progress,     \* statuses handed to onProgress, in order
    outcome,      \* what runReplicate returned or threw
    \* ---- one PhotoCard (photo p1 of session s1) ----
    modelVersion, \* process.env.NEXT_PUBLIC_REPLICATE_MODEL_VERSION || ''
    prompt,       \* useState('') prompt, a sequence of characters
    cpc,          \* position of handleRunAI
    processing,   \* useState(false)
    cardError,    \* useState<string|null>(null): a message, <<>> for null
    cardStatus,   \* useState('') status
    aiOutputUrl,  \* useState(photo.aiOutputUrl || null)
    caught,       \* the error the catch block of handleRunAI holds
    imageUrl,     \* local imageUrl of handleRunAI
    storagePath,  \* local storageRef.fullPath of handleRunAI
    downloads,    \* fetch(url) calls made by downloadImageFromUrl, in order
    storage,      \* paths of the blobs in Firebase Storage
    photoDoc,     \* the photo's Firestore document
    aiResponses,  \* the session's aiResponses documents, in order of creation
    \* ---- one normalizeImageOrientation(file) call ----
    file,         \* the File: its bytes and whether they decode as an image
    imgW, imgH,   \* img.width, img.height once the image has loaded
    npc,          \* position of normalizeImageOrientation
    orientation,  \* what getOrientation handed to its callback
    canvasW, canvasH, \* canvas.width, canvas.height
    canvas,       \* where drawImage put each source pixel
    blob,         \* what canvas.toBlob handed to its callback
    settled,      \* resolve/reject calls on the returned promise, in order
    \* ---- two concurrent runReplicate invocations ----
    runs,         \* per invocation: its locals, its job and its callback log
    \* ---- the card's delete handlers and its photo prop ----
    photo,        \* the photo prop: the document as the dashboard last saw it
    showDeleteConfirm, \* useState<'input' | 'ai' | 'remove' | null>(null)
    deleting,     \* useState(false)
    deletingAi,   \* useState(false)
    removingFromDashboard, \* useState(false)
    dpc,          \* position of the confirmed delete handler
    target,       \* the photo prop that handler's closure holds
    cpcAtConfirm, \* where handleRunAI stood when the handler was confirmed
    \* ---- the collage page and the download route ----
    collagePhotos,  \* useState<Photo[]>([]) photos of CollagePage
    collageLoading, \* useState(true) loading of CollagePage
    rpc,          \* position of the GET handler of /api/download
    response,     \* the response the GET handler returned last
    \* ---- the mobile upload page ----
    upc,          \* position of handleFileSelect
    uploading,    \* useState(false)
    uploadSuccess, \* useState(false)
    uploadError,  \* useState<string | null>(null) error: a message, <<>> for null
    uploadPath,   \* local storageRef.fullPath of handleFileSelect
    added,        \* documents addDoc put into sessions/{sessionId}/photos
    \* ---- the POST handler of /api/replicate ----
    qpc,          \* position of the POST handler
    body,         \* the request body as request.json() yields it
    token,        \* process.env.REPLICATE_API_TOKEN as the handler read it
    upstream,     \* requests made to api.replicate.com, in order
    upstreamResponse, \* the response of the upstream fetch
    reply,        \* what the POST handler returned
    \* ---- one pollPrediction(id, token, interval, maxAttempts) call ----
    ppc,          \* "idle" | "get_wait" | "sleep" | "returned" | "thrown"
    pMaxAttempts, \* the parameter maxAttempts
    pAttempts,    \* the local counter 'attempts'
    pReads,       \* status reads (getPrediction) issued
    pJob,         \* the remote prediction as last reported
    pObserved,    \* statuses the reads returned, in order
    pOutcome,     \* what pollPrediction returned or threw
    \* ---- uploads of several clients into the session ----
    now,          \* Date.now(), the same on every client
    clients,      \* per client: the position of its upload, its timestamp and path
    records       \* documents the clients wrote that name a stored blob

pollVars == <<caller, hasProgress, pc, attempts, job, creates, reads, inflight,
              observed, progress, outcome>>
cardVars == <<modelVersion, prompt, cpc, processing, cardError, cardStatus,
              aiOutputUrl, caught, imageUrl, storagePath, downloads, storage,
              photoDoc, aiResponses>>
orientVars == <<file, imgW, imgH, npc, orientation, canvasW, canvasH, canvas,
                blob, settled>>
dashVars == <<pollVars, cardVars>>
pairVars == <<runs>>
manageVars == <<photo, showDeleteConfirm, deleting, deletingAi,
                removingFromDashboard, dpc, target, cpcAtConfirm>>
galleryVars == <<collagePhotos, collageLoading, rpc, response>>
uploadVars == <<upc, uploading, uploadSuccess, uploadError, uploadPath, added>>
routeVars == <<qpc, body, token, upstream, upstreamResponse, reply>>
pollerVars == <<ppc, pMaxAttempts, pAttempts, pReads, pJob, pObserved, pOutcome>>
clientVars == <<now, clients, records>>
svcVars == <<routeVars, pollerVars, clientVars>>
pageVars == <<pairVars, manageVars, galleryVars, uploadVars, svcVars>>
vars == <<pollVars, cardVars, orientVars, pageVars>>

(* ------------------------------------------------------------------ *)
(* JavaScript values of the 'output' field (output?: any)              *)
(* ------------------------------------------------------------------ *)

JNull == [t |-> "null", s |-> "", a |-> <<>>]
JObject == [t |-> "object", s |-> "", a |-> <<>>]
JStr(str) == [t |-> "string", s |-> str, a |-> <<>>]
JArr(elems) == [t |-> "array", s |-> "", a |-> elems]

\* Output payloads a succeeded prediction may carry.
OutputValues ==
    { JNull, JObject, JStr("u1"), JArr(<<>>), JArr(<<JStr("u1")>>),
      JArr(<<JStr("u1"), JStr("u2")>>), JArr(<<JNull>>),
      JArr(<<JNull, JStr("u1")>>) }

\* Remote error payloads; "" stands for an absent (null) error.
ErrorPayloads == {"", "boom"}

\* status: 'starting' | 'processing' | 'succeeded' | 'failed' | 'canceled'
Statuses == {"starting", "processing", "succeeded", "failed", "canceled"}
TerminalStatuses == {"succeeded", "failed", "canceled"}

NoJob == [status |-> "none", output |-> JNull, error |-> ""]

\* The states of the remote prediction.
JobStates ==
    [status : {"starting", "processing"}, output : {JNull}, error : {""}]
    \cup [status : {"succeeded"}, output : OutputValues, error : {""}]
    \cup [status : {"failed", "canceled"}, output : {JNull}, error : ErrorPayloads]

\* What the remote prediction may report next, given what it reported last:
\* starting -> processing -> one terminal state, which is final.
RemoteNext(j, nReported) ==
    { k \in JobStates :
        /\ k.status = "starting" => nReported < MaxStartingReads
        /\ \/ j.status = "none"
           \/ j.status = "starting"
           \/ j.status = "processing" /\ k.status # "starting"
           \/ j.status \in TerminalStatuses /\ k = j }

(* ------------------------------------------------------------------ *)
(* Error messages: a message is the sequence of its concatenated parts *)
(* ------------------------------------------------------------------ *)

NoError == <<>>
TimeoutMessage == <<"Prediction polling timed out">>
FormatMessage == <<"Unexpected output format from Replicate">>
DownloadMessage == <<"Failed to download image from Replicate">>

\* Errors of a request itself: the route's error field, the fallback text
\* when the field is empty, or a rejected fetch.
CreateRequestErrors ==
    { <<"Failed to create prediction: upstream">>,
      <<"Failed to create prediction">>,
      <<"Failed to fetch">> }
GetRequestErrors ==
    { <<"Failed to get prediction: upstream">>,
      <<"Failed to get prediction">>,
      <<"Failed to fetch">> }

\* `Replicate prediction ${result.status}: ${result.error || 'Unknown error'}`
FailureMessage_NoPayload(j) ==
    <<"Replicate prediction ", j.status, ": ", "Unknown error">>
FailureMessage(j) ==
    <<"Replicate prediction ", j.status, ": ",
      IF j.error = "" THEN "Unknown error" ELSE j.error>>

NoOutcome == [kind |-> "pending", value |-> JNull, error |-> NoError]
Returned(v) == [kind |-> "returned", value |-> v, error |-> NoError]
Thrown(m) == [kind |-> "thrown", value |-> JNull, error |-> m]

(* ------------------------------------------------------------------ *)
(* runReplicate                                                        *)
(* ------------------------------------------------------------------ *)

\* while (attempts < maxAttempts)
LoopCondition_OffByOne(att) == att <= maxAttempts
LoopCondition(att) == att < maxAttempts

\* if (result.status === 'succeeded')
IsSucceeded(status) == status = "succeeded"

\* if (result.status === 'failed' || result.status === 'canceled')
IsFailure_FailedOnly(status) == status = "failed"
IsFailure(status) == status = "failed" \/ status = "canceled"

\* return result.output
ReturnValue_First(j) ==
    IF j.output.t = "array" /\ Len(j.output.a) > 0 THEN j.output.a[1] ELSE j.output
ReturnValue(j) == j.output

\* onProgress?.(status): the callback's log; the card's callback is
\* (newStatus) => setStatus(`AI Status: ${newStatus}`)
OnProgress_ChangesOnly(status) ==
    /\ progress' = IF hasProgress /\ (progress = <<>> \/ progress[Len(progress)] # status)
                     THEN Append(progress, status)
                     ELSE progress
    /\ cardStatus' = IF hasProgress /\ caller = "card"
                       THEN <<"AI Status: ", status>>
                       ELSE cardStatus
OnProgress(status) ==
    /\ progress' = IF hasProgress THEN Append(progress, status) ELSE progress
    /\ cardStatus' = IF hasProgress /\ caller = "card"
                       THEN <<"AI Status: ", status>>
                       ELSE cardStatus

\* onProgress?.(prediction.status) after createPrediction
ReportCreated_Skip(status) ==
    /\ progress' = progress
    /\ cardStatus' = cardStatus
ReportCreated(status) == OnProgress(status)

\* The loop head: test the counter, then either issue the next
\* getPrediction or throw new Error('Prediction polling timed out').
LoopHead(att) ==
    IF LoopCondition(att)
      THEN /\ pc' = "get_wait"
           /\ reads' = reads + 1
           /\ inflight' = "get"
           /\ outcome' = outcome
      ELSE /\ pc' = "thrown"
           /\ reads' = reads
           /\ inflight' = "none"
           /\ outcome' = Thrown(TimeoutMessage)

\* The call itself runs to the first await: the fetch of createPrediction.
EnterRunReplicate(who, cb) ==
    /\ pc = "idle"
    /\ caller' = who
    /\ hasProgress' = cb
    /\ pc' = "create_wait"
    /\ creates' = creates + 1
    /\ inflight' = "create"
    /\ UNCHANGED <<attempts, job, reads, observed, progress, outcome>>

\* runReplicate(version, input, token, onProgress?) called by library code.
CallRunReplicate ==
    /\ UNCHANGED <<orientVars, pageVars>>
    /\ caller = "none"
    /\ cpc = "idle"
    /\ \E cb \in BOOLEAN : EnterRunReplicate("lib", cb)
    /\ UNCHANGED cardVars

\* createPrediction resolves: onProgress, attempts = 0, first loop test.
CreateResolves ==
    /\ UNCHANGED <<orientVars, pageVars>>
    /\ pc = "create_wait"
    /\ \E j \in RemoteNext(job, Len(observed)) :
         /\ job' = j
         /\ observed' = Append(observed, j.status)
         /\ ReportCreated(j.status)
    /\ attempts' = 0
    /\ LoopHead(0)
    /\ UNCHANGED <<caller, hasProgress, creates>>
    /\ UNCHANGED <<modelVersion, prompt, cpc, processing, cardError, aiOutputUrl,
                   caught, imageUrl, storagePath, downloads, storage, photoDoc,
                   aiResponses>>

\* A run that goes on to read the status after a failed create.
CreateRejects_ThenReads ==
    /\ UNCHANGED <<orientVars, pageVars>>
    /\ pc = "create_wait"
    /\ pc' = "get_wait"
    /\ reads' = reads + 1
    /\ inflight' = "get"
    /\ UNCHANGED <<caller, hasProgress, attempts, job, creates, observed,
                   progress, outcome>>
    /\ UNCHANGED cardVars
\* createPrediction throws (non-OK response or rejected fetch): runReplicate
\* rejects with that error.
CreateRejects ==
    /\ UNCHANGED <<orientVars, pageVars>>
    /\ pc = "create_wait"
    /\ \E m \in CreateRequestErrors : outcome' = Thrown(m)
    /\ pc' = "thrown"
    /\ inflight' = "none"
    /\ UNCHANGED <<caller, hasProgress, attempts, job, creates, reads, observed,
                   progress>>
    /\ UNCHANGED cardVars

\* What a failed getPrediction does to the run: the error leaves runReplicate.
ReadFailure_Retry(m) ==
    /\ pc' = "sleep"
    /\ outcome' = outcome
ReadFailure(m) ==
    /\ pc' = "thrown"
    /\ outcome' = Thrown(m)

\* getPrediction resolves: onProgress, then the three branches of the body.
GetResolves ==
    /\ UNCHANGED <<orientVars, pageVars>>
    /\ pc = "get_wait"
    /\ \E j \in RemoteNext(job, Len(observed)) :
         /\ job' = j
         /\ observed' = Append(observed, j.status)
         /\ OnProgress(j.status)
         /\ IF IsSucceeded(j.status)
              THEN /\ pc' = "returned"
                   /\ outcome' = Returned(ReturnValue(j))
              ELSE IF IsFailure(j.status)
                THEN /\ pc' = "thrown"
                     /\ outcome' = Thrown(FailureMessage(j))
                ELSE /\ pc' = "sleep"
                     /\ outcome' = outcome
    /\ inflight' = "none"
    /\ UNCHANGED <<caller, hasProgress, attempts, creates, reads>>
    /\ UNCHANGED <<modelVersion, prompt, cpc, processing, cardError, aiOutputUrl,
                   caught, imageUrl, storagePath, downloads, storage, photoDoc,
                   aiResponses>>

\* getPrediction throws (non-OK response or rejected fetch).
GetRejects ==
    /\ UNCHANGED <<orientVars, pageVars>>
    /\ pc = "get_wait"
    /\ \E m \in GetRequestErrors : ReadFailure(m)
    /\ inflight' = "none"
    /\ UNCHANGED <<caller, hasProgress, attempts, job, creates, reads, observed,
                   progress>>
    /\ UNCHANGED cardVars

\* The setTimeout(resolve, interval) fires: attempts++, next loop test.
TimerFires ==
    /\ UNCHANGED <<orientVars, pageVars>>
    /\ pc = "sleep"
    /\ attempts' = attempts + 1
    /\ LoopHead(attempts + 1)
    /\ UNCHANGED <<caller, hasProgress, job, creates, observed, progress>>
    /\ UNCHANGED cardVars

(* ------------------------------------------------------------------ *)
(* Firebase Storage and Firestore, as the card uses them               *)
(* ------------------------------------------------------------------ *)

SessionId == "s1"
PhotoId == "p1"
Times == 1..MaxTime

NoPath == [dir |-> "none", session |-> "", photo |-> "", ts |-> 0]
\* `stant_images/input/${sessionId}/${timestamp}.jpg`
InputPath(ts) ==
    [dir |-> "stant_images/input", session |-> SessionId, photo |-> "", ts |-> ts]
\* `stant_images/ai/${sessionId}/${photo.id}_${timestamp}.jpg`
AiPath(ts) ==
    [dir |-> "stant_images/ai", session |-> SessionId, photo |-> PhotoId, ts |-> ts]

\* getDownloadURL(storageRef); null is the URL of no path.
NullUrl == [host |-> "null", path |-> NoPath]
DownloadUrl(path) == [host |-> "firebasestorage", path |-> path]

\* An uploadBytes that stores nothing.
Upload_Nothing(store, path, content) == store
\* uploadBytes(ref, blob): the blob at a path is replaced.
Upload(store, path, content) ==
    { b \in store : b.path # path } \cup { [path |-> path, content |-> content] }

StoredPaths == { b.path : b \in storage }

\* The photo document the mobile page added for p1.
InitialPhotoDoc ==
    [ exists |-> TRUE,
      id |-> PhotoId,
      url |-> DownloadUrl(InputPath(1)),
      storagePath |-> InputPath(1),
      uploadedAt |-> 2,
      aiOutputUrl |-> NullUrl,
      aiOutputStoragePath |-> NoPath,
      aiProcessed |-> FALSE ]

SucceededResponse(p, url, path) ==
    [ photoId |-> PhotoId, prompt |-> p, status |-> "succeeded", error |-> NoError,
      outputImageUrl |-> url, outputImageStoragePath |-> path ]
FailedResponse(p, m) ==
    [ photoId |-> PhotoId, prompt |-> p, status |-> "failed", error |-> m,
      outputImageUrl |-> NullUrl, outputImageStoragePath |-> NoPath ]

StorageErrors == { <<"Firebase Storage: unknown error">> }
FirestoreErrors == { <<"Firestore: unavailable">> }

(* ------------------------------------------------------------------ *)
(* PhotoCard.handleRunAI                                               *)
(* ------------------------------------------------------------------ *)

Prompts == { <<>>, <<" ">>, <<"a">> }
ModelVersions == {"", "v1"}

\* String.prototype.trim on a sequence of characters
RECURSIVE TrimLeft(_)
TrimLeft(str) ==
    IF str # <<>> /\ Head(str) = " " THEN TrimLeft(Tail(str)) ELSE str
RECURSIVE TrimRight(_)
TrimRight(str) ==
    IF str # <<>> /\ str[Len(str)] = " "
      THEN TrimRight(SubSeq(str, 1, Len(str) - 1))
      ELSE str
Trim(str) == TrimRight(TrimLeft(str))

\* if (Array.isArray(output) && output.length > 0) imageUrl = output[0];
\* else if (typeof output === 'string') imageUrl = output;
\* else throw new Error('Unexpected output format from Replicate');
ExtractImageUrl_Last(output) ==
    IF output.t = "array" /\ Len(output.a) > 0
      THEN [ok |-> TRUE, url |-> output.a[Len(output.a)]]
      ELSE IF output.t = "string"
        THEN [ok |-> TRUE, url |-> output]
        ELSE [ok |-> FALSE, url |-> JNull]
ExtractImageUrl(output) ==
    IF output.t = "array" /\ Len(output.a) > 0
      THEN [ok |-> TRUE, url |-> output.a[1]]
      ELSE IF output.t = "string"
        THEN [ok |-> TRUE, url |-> output]
        ELSE [ok |-> FALSE, url |-> JNull]

\* catch (err): setError(err.message); setStatus('Failed'); then the
\* addDoc of the failed aiResponses record is issued.
Catch_StatusKept(m) ==
    /\ cardError' = m
    /\ cardStatus' = cardStatus
    /\ caught' = m
    /\ cpc' = "await_failadd"
Catch(m) ==
    /\ cardError' = m
    /\ cardStatus' = <<"Failed">>
    /\ caught' = m
    /\ cpc' = "await_failadd"

TypePrompt ==
    /\ UNCHANGED <<orientVars, pageVars>>
    /\ cpc = "idle"
    /\ caller = "none"
    /\ \E p \in Prompts : prompt' = p
    /\ UNCHANGED pollVars
    /\ UNCHANGED <<modelVersion, cpc, processing, cardError, cardStatus,
                   aiOutputUrl, caught, imageUrl, storagePath, downloads, storage,
                   photoDoc, aiResponses>>

\* The click: both guards, the state reset, and runReplicate up to its
\* first await.
HandleRunAI ==
    /\ UNCHANGED <<orientVars, pageVars>>
    /\ cpc = "idle"
    /\ caller = "none"
    /\ IF Trim(prompt) = <<>>
         THEN /\ cardError' = <<"Please enter a prompt">>
              /\ UNCHANGED <<pollVars, cpc, processing, cardStatus>>
         ELSE IF modelVersion = ""
           THEN /\ cardError' = <<"Replicate model version not configured">>
                /\ UNCHANGED <<pollVars, cpc, processing, cardStatus>>
           ELSE /\ processing' = TRUE
                /\ cardError' = NoError
                /\ cardStatus' = <<"Processing with AI...">>
                /\ EnterRunReplicate("card", TRUE)
                /\ cpc' = "await_run"
    /\ UNCHANGED <<modelVersion, prompt, aiOutputUrl, caught, imageUrl,
                   storagePath, downloads, storage, photoDoc, aiResponses>>

\* runReplicate settled: the output's shape is examined and the download
\* is issued, or the catch block is entered.
AfterRunReplicate ==
    /\ UNCHANGED <<orientVars, pageVars>>
    /\ cpc = "await_run"
    /\ pc \in {"returned", "thrown"}
    /\ IF outcome.kind = "thrown"
         THEN /\ Catch(outcome.error)
              /\ UNCHANGED <<imageUrl, downloads>>
         ELSE LET x == ExtractImageUrl(outcome.value) IN
              IF x.ok
                THEN /\ imageUrl' = x.url
                     /\ cardStatus' = <<"Downloading AI output...">>
                     /\ downloads' = Append(downloads, x.url)
                     /\ cpc' = "await_download"
                     /\ UNCHANGED <<cardError, caught>>
                ELSE /\ Catch(FormatMessage)
                     /\ UNCHANGED <<imageUrl, downloads>>
    /\ UNCHANGED pollVars
    /\ UNCHANGED <<modelVersion, prompt, processing, aiOutputUrl, storagePath,
                   storage, photoDoc, aiResponses>>

\* downloadImageFromUrl settles; on success Date.now() is read and
\* uploadBytes is issued.
DownloadSettles ==
    /\ UNCHANGED <<orientVars, pageVars>>
    /\ cpc = "await_download"
    /\ \/ \E ts \in Times :
            /\ storagePath' = AiPath(ts)
            /\ cardStatus' = <<"Uploading to storage...">>
            /\ cpc' = "await_upload"
            /\ UNCHANGED <<cardError, caught>>
       \/ /\ \E m \in {DownloadMessage, <<"Failed to fetch">>} : Catch(m)
          /\ UNCHANGED storagePath
    /\ UNCHANGED pollVars
    /\ UNCHANGED <<modelVersion, prompt, processing, aiOutputUrl, imageUrl,
                   downloads, storage, photoDoc, aiResponses>>

\* uploadBytes settles; on success getDownloadURL is issued.
UploadSettles ==
    /\ UNCHANGED <<orientVars, pageVars>>
    /\ cpc = "await_upload"
    /\ \/ /\ storage' = Upload(storage, storagePath, imageUrl)
          /\ cpc' = "await_url"
          /\ UNCHANGED <<cardError, cardStatus, caught>>
       \/ /\ \E m \in StorageErrors : Catch(m)
          /\ UNCHANGED storage
    /\ UNCHANGED pollVars
    /\ UNCHANGED <<modelVersion, prompt, processing, aiOutputUrl, imageUrl,
                   storagePath, downloads, photoDoc, aiResponses>>

\* getDownloadURL settles; on success setAiOutputUrl and updateDoc is issued.
GetUrlSettles ==
    /\ UNCHANGED <<orientVars, pageVars>>
    /\ cpc = "await_url"
    /\ \/ /\ aiOutputUrl' = DownloadUrl(storagePath)
          /\ cardStatus' = <<"Saving metadata...">>
          /\ cpc' = "await_update"
          /\ UNCHANGED <<cardError, caught>>
       \/ /\ \E m \in StorageErrors : Catch(m)
          /\ UNCHANGED aiOutputUrl
    /\ UNCHANGED pollVars
    /\ UNCHANGED <<modelVersion, prompt, processing, imageUrl, storagePath,
                   downloads, storage, photoDoc, aiResponses>>

\* updateDoc(photoDoc, {aiOutputUrl, aiOutputStoragePath, aiProcessedAt})
\* settles; on success the addDoc of the succeeded record is issued.
UpdateDocSettles ==
    /\ UNCHANGED <<orientVars, pageVars>>
    /\ cpc = "await_update"
    /\ \/ /\ photoDoc.exists
          /\ photoDoc' = [photoDoc EXCEPT !.aiOutputUrl = aiOutputUrl,
                                          !.aiOutputStoragePath = storagePath,
                                          !.aiProcessed = TRUE]
          /\ cpc' = "await_add"
          /\ UNCHANGED <<cardError, cardStatus, caught>>
       \/ /\ \E m \in FirestoreErrors : Catch(m)
          /\ UNCHANGED photoDoc
    /\ UNCHANGED pollVars
    /\ UNCHANGED <<modelVersion, prompt, processing, aiOutputUrl, imageUrl,
                   storagePath, downloads, storage, aiResponses>>

\* addDoc of the succeeded record settles; on success setStatus('Completed!')
\* and the finally block.
AddDocSettles ==
    /\ UNCHANGED <<orientVars, pageVars>>
    /\ cpc = "await_add"
    /\ \/ /\ aiResponses' = Append(aiResponses,
                               SucceededResponse(prompt, aiOutputUrl, storagePath))
          /\ cardStatus' = <<"Completed!">>
          /\ processing' = FALSE
          /\ cpc' = "done"
          /\ UNCHANGED <<cardError, caught>>
       \/ /\ \E m \in FirestoreErrors : Catch(m)
          /\ UNCHANGED <<aiResponses, processing>>
    /\ UNCHANGED pollVars
    /\ UNCHANGED <<modelVersion, prompt, aiOutputUrl, imageUrl, storagePath,
                   downloads, storage, photoDoc>>

\* addDoc of the failed record settles (a failure is only logged), then the
\* finally block.
FailedAddDocSettles ==
    /\ UNCHANGED <<orientVars, pageVars>>
    /\ cpc = "await_failadd"
    /\ \/ aiResponses' = Append(aiResponses, FailedResponse(prompt, caught))
       \/ UNCHANGED aiResponses
    /\ processing' = FALSE
    /\ cpc' = "done"
    /\ UNCHANGED pollVars
    /\ UNCHANGED <<modelVersion, prompt, cardError, cardStatus, aiOutputUrl,
                   caught, imageUrl, storagePath, downloads, storage, photoDoc>>

(* ------------------------------------------------------------------ *)
(* Bytes of image files                                                *)
(* ------------------------------------------------------------------ *)

\* Largest img.width and img.height.
MaxDim == 2

RECURSIVE Concat(_)
Concat(seqs) == IF seqs = <<>> THEN <<>> ELSE Head(seqs) \o Concat(Tail(seqs))

\* A 16-bit and a 32-bit field as bytes, in either byte order.
Bytes16(n, little) ==
    IF little THEN <<n % 256, n \div 256>> ELSE <<n \div 256, n % 256>>
Bytes32(n, little) ==
    IF little THEN Bytes16(n % 65536, TRUE) \o Bytes16(n \div 65536, TRUE)
              ELSE Bytes16(n \div 65536, FALSE) \o Bytes16(n % 65536, FALSE)

\* A JPEG marker segment: FF xx, a big-endian length that counts itself,
\* the payload.
Segment(code, payload) ==
    <<255, code>> \o Bytes16(Len(payload) + 2, FALSE) \o payload

\* One 12-byte IFD entry of type SHORT holding one value.
IfdEntry(tag, value, little) ==
    Bytes16(tag, little) \o Bytes16(3, little) \o Bytes32(1, little)
        \o Bytes16(value, little) \o Bytes16(0, little)

\* The APP1 segment: "Exif\0\0", the TIFF header (byte order, 42, offset of
\* IFD0 = 8) and IFD0 with the given entries, each <<tag, value>>.
ExifSegment(little, entries) ==
    Segment(225,
        <<69, 120, 105, 102, 0, 0>>
        \o (IF little THEN <<73, 73>> ELSE <<77, 77>>)
        \o Bytes16(42, little) \o Bytes32(8, little)
        \o Bytes16(Len(entries), little)
        \o Concat([i \in 1..Len(entries) |->
                     IfdEntry(entries[i][1], entries[i][2], little)])
        \o Bytes32(0, little))

\* IFD0 contents: tag 0x010F (Make, 271), 0x0112 (Orientation, 274).
OrientationValues == 0..9
IfdContents ==
    { <<>>, <<<<271, 1>>>> }
    \cup { <<<<274, v>>>> : v \in OrientationValues }
    \cup { <<<<271, 1>>, <<274, v>>>> : v \in OrientationValues }

\* Entropy-coded data after the SOS header: FF inside it is stuffed as FF 00.
ScanData == { <<18, 52>>, <<255, 0, 0, 2>> }

\* SOF0, SOS, the entropy-coded data and EOI.
ImagePart(data) ==
    Segment(192, <<8, 0, 1, 0, 1, 1>>) \o Segment(218, <<1, 1, 0>>)
        \o data \o <<255, 217>>

\* A JPEG file: SOI, an optional APP0, an optional APP1, the image.
JpegFile(app0, exif, data) == <<255, 216>> \o app0 \o exif \o ImagePart(data)

App0Choices == { <<>>, Segment(224, <<74, 70>>) }
ExifChoices(contents) ==
    { ExifSegment(little, entries) : little \in BOOLEAN, entries \in contents }

JpegFiles ==
    { JpegFile(app0, exif, data) :
        app0 \in App0Choices,
        exif \in { <<>> } \cup ExifChoices(IfdContents),
        data \in ScanData }

\* Decodable files that are not JPEG (PNG, GIF), the second with the bytes
\* of a JPEG with orientation 6 behind its signature.
OtherImageFiles ==
    { <<137, 80, 78, 71, 13, 10>>,
      <<71, 73, 70, 56>> \o ExifSegment(FALSE, <<<<274, 6>>>>) }

\* Files that no decoder accepts.
NonImageFiles == { <<>>, <<65>>, <<65, 66, 67>> }

\* An APP1 segment whose metadata block is damaged: "magic" has a wrong
\* identifier, "offset" an IFD0 offset behind the end of the file, "count" an
\* entry count that says more entries than there are bytes.
DamagedExifSegment(damage, little) ==
    Segment(225,
        (IF damage = "magic" THEN <<69, 120, 105, 103, 0, 0>>
                             ELSE <<69, 120, 105, 102, 0, 0>>)
        \o (IF little THEN <<73, 73>> ELSE <<77, 77>>)
        \o Bytes16(42, little)
        \o Bytes32(IF damage = "offset" THEN 4096 ELSE 8, little)
        \o Bytes16(IF damage = "count" THEN 30 ELSE 1, little)
        \o IfdEntry(IF damage = "magic" THEN 274 ELSE 271, 6, little)
        \o Bytes32(0, little))

Damages == {"magic", "offset", "count"}

\* JPEG files whose image data is intact (the decoder does not need the
\* metadata) and whose APP1 segment is damaged.
DamagedJpegFiles ==
    { JpegFile(<<>>, DamagedExifSegment(damage, little), <<18, 52>>) :
        damage \in Damages, little \in BOOLEAN }

Files ==
    { [bytes |-> b, image |-> TRUE] :
        b \in JpegFiles \cup OtherImageFiles \cup DamagedJpegFiles }
    \cup { [bytes |-> b, image |-> FALSE] : b \in NonImageFiles }

NoFile == [bytes |-> <<>>, image |-> FALSE]

(* ------------------------------------------------------------------ *)
(* getOrientation: the DataView reads and the marker scan              *)
(* ------------------------------------------------------------------ *)

\* A DataView read of n bytes at offset o throws RangeError outside this.
InRange(buf, o, n) == o >= 0 /\ o + n <= Len(buf)
\* view.getUint16(o, little), view.getUint32(o, little); offset 0 is buf[1].
Uint16(buf, o, little) ==
    IF little THEN buf[o + 1] + 256 * buf[o + 2]
              ELSE 256 * buf[o + 1] + buf[o + 2]
Uint32(buf, o, little) ==
    IF little THEN Uint16(buf, o, TRUE) + 65536 * Uint16(buf, o + 2, TRUE)
              ELSE 65536 * Uint16(buf, o, FALSE) + Uint16(buf, o + 2, FALSE)

\* What one run of reader.onload does: it calls callback(tag), or a read
\* throws RangeError and the callback is never called.
Callback(tag) == [kind |-> "callback", tag |-> tag]
RangeError == [kind |-> "RangeError", tag |-> 0]
NotFound(o) == [kind |-> "continue", tag |-> o]

\* for (let i = 0; i < tags; i++): the entry whose tag is 0x0112
RECURSIVE ScanTags(_, _, _, _, _)
ScanTags(buf, offset, little, tags, i) ==
    IF ~(i < tags) THEN NotFound(offset)
    ELSE LET tagOffset == offset + (i * 12) IN
         IF ~InRange(buf, tagOffset, 2) THEN RangeError
         ELSE IF Uint16(buf, tagOffset, little) = 274
           THEN IF ~InRange(buf, tagOffset + 8, 2) THEN RangeError
                ELSE Callback(Uint16(buf, tagOffset + 8, little))
           ELSE ScanTags(buf, offset, little, tags, i + 1)

\* The body of if (marker === 0xFFE1); offset is just behind the marker.
ExifBlock(buf, offset) ==
    LET o1 == offset + 2 IN
    IF ~InRange(buf, o1, 4) THEN RangeError
    ELSE IF Uint32(buf, o1, FALSE) # 1165519206 THEN Callback(1)
    ELSE LET o2 == o1 + 6 IN
         IF ~InRange(buf, o2, 2) THEN RangeError
         ELSE LET little == (Uint16(buf, o2, FALSE) = 18761) IN
              IF ~InRange(buf, o2 + 4, 4) THEN RangeError
              ELSE LET o3 == o2 + Uint32(buf, o2 + 4, little) IN
                   IF ~InRange(buf, o3, 2) THEN RangeError
                   ELSE ScanTags(buf, o3 + 2, little, Uint16(buf, o3, little), 0)

\* while (offset < length) { ... } callback(1)
RECURSIVE MarkerScan(_, _)
MarkerScan(buf, offset) ==
    IF ~(offset < Len(buf)) THEN Callback(1)
    ELSE IF ~InRange(buf, offset, 2) THEN RangeError
    ELSE LET marker == Uint16(buf, offset, FALSE)
             next == offset + 2
         IN  IF marker = 65505
               THEN LET r == ExifBlock(buf, next) IN
                    IF r.kind = "continue" THEN MarkerScan(buf, r.tag) ELSE r
               ELSE IF marker \div 256 # 255 THEN Callback(1)
               ELSE IF ~InRange(buf, next, 2) THEN RangeError
               ELSE MarkerScan(buf, next + Uint16(buf, next, FALSE))

\* reader.onload of getOrientation
GetOrientation(buf) ==
    IF ~InRange(buf, 0, 2) THEN RangeError
    ELSE IF Uint16(buf, 0, FALSE) # 65496 THEN Callback(1)
    ELSE MarkerScan(buf, 2)

(* ------------------------------------------------------------------ *)
(* normalizeImageOrientation: the canvas                                *)
(* ------------------------------------------------------------------ *)

\* if (orientation > 4 && orientation < 9) the canvas is img.height wide
SwapsDimensions_From6(o) == o > 5 /\ o < 9
SwapsDimensions(o) == o > 4 /\ o < 9

\* ctx.transform(a, b, c, d, e, f) of each case; the default case leaves
\* the identity matrix.
TransformOf_6and8Swapped(o, w, h) ==
    CASE o = 2 -> <<-1, 0, 0, 1, w, 0>>
      [] o = 3 -> <<-1, 0, 0, -1, w, h>>
      [] o = 4 -> <<1, 0, 0, -1, 0, h>>
      [] o = 5 -> <<0, 1, 1, 0, 0, 0>>
      [] o = 6 -> <<0, -1, 1, 0, 0, w>>
      [] o = 7 -> <<0, -1, -1, 0, h, w>>
      [] o = 8 -> <<0, 1, -1, 0, h, 0>>
      [] OTHER -> <<1, 0, 0, 1, 0, 0>>
TransformOf(o, w, h) ==
    CASE o = 2 -> <<-1, 0, 0, 1, w, 0>>
      [] o = 3 -> <<-1, 0, 0, -1, w, h>>
      [] o = 4 -> <<1, 0, 0, -1, 0, h>>
      [] o = 5 -> <<0, 1, 1, 0, 0, 0>>
      [] o = 6 -> <<0, 1, -1, 0, h, 0>>
      [] o = 7 -> <<0, -1, -1, 0, h, w>>
      [] o = 8 -> <<0, -1, 1, 0, 0, w>>
      [] OTHER -> <<1, 0, 0, 1, 0, 0>>

\* The point (x, y) under the matrix m: (a x + c y + e, b x + d y + f).
Apply(m, x, y) == <<m[1] * x + m[3] * y + m[5], m[2] * x + m[4] * y + m[6]>>
Min(a, b) == IF a < b THEN a ELSE b

\* The canvas cell that the unit square of source pixel (x, y) covers.
CellOf(m, x, y) ==
    LET p == Apply(m, x, y)
        q == Apply(m, x + 1, y + 1)
    IN  <<Min(p[1], q[1]), Min(p[2], q[2])>>

\* ctx.drawImage(img, 0, 0) on a cw x ch canvas: what lies outside the
\* canvas is clipped.
DrawImage(m, w, h, cw, ch) ==
    { [dx |-> CellOf(m, x, y)[1], dy |-> CellOf(m, x, y)[2], sx |-> x, sy |-> y] :
        x \in 0..(w - 1), y \in 0..(h - 1) }
    \cap [dx : 0..(cw - 1), dy : 0..(ch - 1), sx : 0..(w - 1), sy : 0..(h - 1)]

Resolved == <<"resolve", "image/png">>
Rejected(m) == <<"reject", m>>

\* normalizeImageOrientation(file): the FileReader starts reading.
Normalize ==
    /\ npc = "idle"
    /\ npc' = "read_wait"
    /\ UNCHANGED <<file, imgW, imgH, orientation, canvasW, canvasH, canvas,
                   blob, settled>>
    /\ UNCHANGED <<dashVars, pageVars>>

\* reader.onload: img.src is set; reader.onerror: reject.
ReaderSettles ==
    /\ npc = "read_wait"
    /\ \/ /\ npc' = "decode_wait"
          /\ UNCHANGED settled
       \/ /\ npc' = "done"
          /\ settled' = Append(settled, Rejected("Failed to read file"))
    /\ UNCHANGED <<file, imgW, imgH, orientation, canvasW, canvasH, canvas, blob>>
    /\ UNCHANGED <<dashVars, pageVars>>

\* img.onload: the 2d context is taken and getOrientation starts its own
\* FileReader; img.onerror: reject.
ImageSettles ==
    /\ npc = "decode_wait"
    /\ IF file.image
         THEN \E w \in 1..MaxDim, h \in 1..MaxDim, ctx \in BOOLEAN :
                /\ imgW' = w
                /\ imgH' = h
                /\ IF ctx
                     THEN /\ npc' = "orientation_wait"
                          /\ UNCHANGED settled
                     ELSE /\ npc' = "done"
                          /\ settled' = Append(settled,
                                           Rejected("Failed to get canvas context"))
         ELSE /\ npc' = "done"
              /\ settled' = Append(settled, Rejected("Failed to load image"))
              /\ UNCHANGED <<imgW, imgH>>
    /\ UNCHANGED <<file, orientation, canvasW, canvasH, canvas, blob>>
    /\ UNCHANGED <<dashVars, pageVars>>

\* The callback of getOrientation: canvas size, transform, drawImage, and
\* canvas.toBlob is started.
OrientationCallback(o) ==
    /\ orientation' = Callback(o)
    /\ canvasW' = IF SwapsDimensions(o) THEN imgH ELSE imgW
    /\ canvasH' = IF SwapsDimensions(o) THEN imgW ELSE imgH
    /\ canvas' = DrawImage(TransformOf(o, imgW, imgH), imgW, imgH,
                           canvasW', canvasH')
    /\ npc' = "blob_wait"

\* The FileReader of getOrientation settles: onload runs the scan, which
\* calls the callback or throws; onerror calls callback(1).
OrientationReaderSettles ==
    /\ npc = "orientation_wait"
    /\ \/ \E r \in {GetOrientation(file.bytes)} :
          IF r.kind = "callback"
            THEN OrientationCallback(r.tag)
            ELSE /\ orientation' = r
                 /\ npc' = "stuck"
                 /\ UNCHANGED <<canvasW, canvasH, canvas>>
       \/ OrientationCallback(1)
    /\ UNCHANGED <<file, imgW, imgH, blob, settled>>
    /\ UNCHANGED <<dashVars, pageVars>>

\* The toBlob callback: if (!blob) reject(...), else resolve(correctedFile).
ToBlobCallback_AlwaysResolves(b) == Resolved
ToBlobCallback(b) ==
    IF b = "null" THEN Rejected("Failed to create blob from canvas") ELSE Resolved

\* canvas.toBlob calls back with the encoded PNG, or with null when the
\* image cannot be encoded.
ToBlobSettles ==
    /\ npc = "blob_wait"
    /\ \E b \in {"png", "null"} :
         /\ blob' = b
         /\ settled' = Append(settled, ToBlobCallback(b))
    /\ npc' = "done"
    /\ UNCHANGED <<file, imgW, imgH, orientation, canvasW, canvasH, canvas>>
    /\ UNCHANGED <<dashVars, pageVars>>

OrientIdle ==
    /\ imgW = 0
    /\ imgH = 0
    /\ npc = "idle"
    /\ orientation = [kind |-> "none", tag |-> 0]
    /\ canvasW = 0
    /\ canvasH = 0
    /\ canvas = {}
    /\ blob = "none"
    /\ settled = <<>>

(* ------------------------------------------------------------------ *)
(* Two concurrent invocations of runReplicate                          *)
(* ------------------------------------------------------------------ *)

\* The invocations; each creates its own prediction, named like itself.
Runs == {"a", "b"}

\* The job of invocation b ends within this many responses; the job of
\* invocation a may stay unfinished until the loop gives up.
MaxPairReads == 2

\* getPrediction(prediction.id): the prediction an invocation reads is the
\* one its own createPrediction returned.
PredictionOf_LastCreated(r) == "b"
PredictionOf(r) == r

\* The output of each prediction: they differ.
OutputOf(q) ==
    IF q = "a" THEN JArr(<<JStr("u1")>>) ELSE JArr(<<JStr("u1"), JStr("u2")>>)

\* What prediction q may report next: when it succeeds, its own output.
PairRemoteNext(q, j, nReported) ==
    { k \in RemoteNext(j, nReported) :
        /\ k.status = "succeeded" => k.output = OutputOf(q)
        /\ (q = "b" /\ nReported >= MaxPairReads) => k.status \in TerminalStatuses }

NewRun ==
    [ pc |-> "idle", attempts |-> 0, reads |-> 0, job |-> NoJob, served |-> <<>>,
      progress |-> <<>>, outcome |-> NoOutcome ]

\* The loop head of one invocation (see LoopHead).
PairLoopHead(run, att) ==
    IF LoopCondition(att)
      THEN [run EXCEPT !.attempts = att, !.pc = "get_wait", !.reads = @ + 1]
      ELSE [run EXCEPT !.attempts = att, !.pc = "thrown",
                       !.outcome = Thrown(TimeoutMessage)]

\* The body of the loop after a status read returned j.
PairAfterRead(run, j) ==
    LET told == [run EXCEPT !.progress = Append(@, j.status)] IN
    IF IsSucceeded(j.status)
      THEN [told EXCEPT !.pc = "returned", !.outcome = Returned(ReturnValue(j))]
      ELSE IF IsFailure(j.status)
        THEN [told EXCEPT !.pc = "thrown", !.outcome = Thrown(FailureMessage(j))]
        ELSE [told EXCEPT !.pc = "sleep"]

\* The prediction q serves one more response.
Serve(rs, q, j) == [rs EXCEPT ![q].job = j, ![q].served = Append(@, j)]

PairCall(r) ==
    /\ runs[r].pc = "idle"
    /\ runs' = [runs EXCEPT ![r].pc = "create_wait"]
    /\ UNCHANGED <<dashVars, orientVars, manageVars, galleryVars, uploadVars, svcVars>>

PairCreateResolves(r) ==
    /\ runs[r].pc = "create_wait"
    /\ \E j \in PairRemoteNext(r, runs[r].job, Len(runs[r].served)) :
         LET rs == Serve(runs, r, j)
             told == [rs[r] EXCEPT !.progress = Append(@, j.status)]
         IN  runs' = [rs EXCEPT ![r] = PairLoopHead(told, 0)]
    /\ UNCHANGED <<dashVars, orientVars, manageVars, galleryVars, uploadVars, svcVars>>

PairCreateRejects(r) ==
    /\ runs[r].pc = "create_wait"
    /\ \E m \in CreateRequestErrors :
         runs' = [runs EXCEPT ![r].pc = "thrown", ![r].outcome = Thrown(m)]
    /\ UNCHANGED <<dashVars, orientVars, manageVars, galleryVars, uploadVars, svcVars>>

PairGetResolves(r) ==
    /\ runs[r].pc = "get_wait"
    /\ LET q == PredictionOf(r) IN
       \E j \in PairRemoteNext(q, runs[q].job, Len(runs[q].served)) :
         LET rs == Serve(runs, q, j) IN
         runs' = [rs EXCEPT ![r] = PairAfterRead(rs[r], j)]
    /\ UNCHANGED <<dashVars, orientVars, manageVars, galleryVars, uploadVars, svcVars>>

PairGetRejects(r) ==
    /\ runs[r].pc = "get_wait"
    /\ \E m \in GetRequestErrors :
         runs' = [runs EXCEPT ![r].pc = "thrown", ![r].outcome = Thrown(m)]
    /\ UNCHANGED <<dashVars, orientVars, manageVars, galleryVars, uploadVars, svcVars>>

PairTimerFires(r) ==
    /\ runs[r].pc = "sleep"
    /\ runs' = [runs EXCEPT ![r] = PairLoopHead(runs[r], runs[r].attempts + 1)]
    /\ UNCHANGED <<dashVars, orientVars, manageVars, galleryVars, uploadVars, svcVars>>

PairIdle == runs = [r \in Runs |-> NewRun]

(* ------------------------------------------------------------------ *)
(* PhotoCard: the photo prop and the three delete handlers             *)
(* ------------------------------------------------------------------ *)

\* The document sessions/s1/photos/p1 after deleteDoc.
NoPhotoDoc ==
    [ exists |-> FALSE, id |-> PhotoId, url |-> NullUrl, storagePath |-> NoPath,
      uploadedAt |-> 0, aiOutputUrl |-> NullUrl, aiOutputStoragePath |-> NoPath,
      aiProcessed |-> FALSE ]

\* deleteObject(ref): the blob at the path is removed.
DeleteObject(store, path) == { b \in store : b.path # path }

\* deleteObject rejects with storage/object-not-found when there is no blob.
NotFoundError == <<"Firebase Storage: Object does not exist">>
DeleteObjectErrors(store, path) ==
    IF path \in { b.path : b \in store } THEN StorageErrors ELSE {NotFoundError}

\* if (photo.aiOutputStoragePath)
HasAiOutputPath(p) == p.aiOutputStoragePath # NoPath

\* updateDoc(photoDoc, {aiOutputUrl: null, aiOutputStoragePath: null,
\* aiProcessedAt: null})
ClearAiFields_KeepUrl(d) ==
    [d EXCEPT !.aiOutputStoragePath = NoPath, !.aiProcessed = FALSE]
ClearAiFields(d) ==
    [d EXCEPT !.aiOutputUrl = NullUrl, !.aiOutputStoragePath = NoPath,
              !.aiProcessed = FALSE]

\* disabled={deleting || deletingAi || removingFromDashboard} of the banner
Busy == deleting \/ deletingAi \/ removingFromDashboard

\* The dashboard's onSnapshot callback: the card is rendered with the photo
\* as the document is now, or is gone when the document is.
DashboardSnapshot ==
    /\ photo # photoDoc
    /\ photo' = photoDoc
    /\ UNCHANGED <<showDeleteConfirm, deleting, deletingAi, removingFromDashboard,
                   dpc, target, cpcAtConfirm>>
    /\ UNCHANGED <<dashVars, orientVars, pairVars, galleryVars, uploadVars, svcVars>>

\* The catch blocks of handleDeleteInput and handleRemoveFromDashboard.
CatchDelete(m, position) ==
    /\ cardError' = m
    /\ deleting' = (IF position = "input_failed" THEN FALSE ELSE deleting)
    /\ removingFromDashboard' =
         (IF position = "remove_failed" THEN FALSE ELSE removingFromDashboard)
    /\ showDeleteConfirm' = "null"
    /\ dpc' = position

\* handleDeleteInput: the first click asks for confirmation, the confirming
\* click runs up to the first await, deleteObject of the input blob.
HandleDeleteInput ==
    /\ photo.exists
    /\ IF showDeleteConfirm # "input"
         THEN /\ ~deleting
              /\ showDeleteConfirm' = "input"
              /\ UNCHANGED <<deleting, dpc, target, cpcAtConfirm, cardError>>
         ELSE /\ ~Busy
              /\ deleting' = TRUE
              /\ cardError' = NoError
              /\ target' = photo
              /\ cpcAtConfirm' = cpc
              /\ dpc' = "input_blob"
              /\ UNCHANGED showDeleteConfirm
    /\ UNCHANGED <<photo, deletingAi, removingFromDashboard>>
    /\ UNCHANGED <<modelVersion, prompt, cpc, processing, cardStatus, aiOutputUrl,
                   caught, imageUrl, storagePath, downloads, storage, photoDoc,
                   aiResponses>>
    /\ UNCHANGED <<pollVars, orientVars, pairVars, galleryVars, uploadVars, svcVars>>

\* deleteObject(inputStorageRef) settles; on success the AI blob's
\* deleteObject is issued when the photo has an aiOutputStoragePath, else
\* deleteDoc.
DeleteInputBlobSettles ==
    /\ dpc = "input_blob"
    /\ \/ /\ target.storagePath \in StoredPaths
          /\ storage' = DeleteObject(storage, target.storagePath)
          /\ dpc' = IF HasAiOutputPath(target) THEN "input_ai" ELSE "input_doc"
          /\ UNCHANGED <<cardError, deleting, removingFromDashboard,
                         showDeleteConfirm>>
       \/ /\ \E m \in DeleteObjectErrors(storage, target.storagePath) :
               CatchDelete(m, "input_failed")
          /\ UNCHANGED storage
    /\ UNCHANGED <<photo, deletingAi, target, cpcAtConfirm>>
    /\ UNCHANGED <<modelVersion, prompt, cpc, processing, cardStatus, aiOutputUrl,
                   caught, imageUrl, storagePath, downloads, photoDoc, aiResponses>>
    /\ UNCHANGED <<pollVars, orientVars, pairVars, galleryVars, uploadVars, svcVars>>

\* deleteObject(outputStorageRef) of handleDeleteInput settles; on success
\* deleteDoc is issued.
DeleteInputAiSettles ==
    /\ dpc = "input_ai"
    /\ \/ /\ target.aiOutputStoragePath \in StoredPaths
          /\ storage' = DeleteObject(storage, target.aiOutputStoragePath)
          /\ dpc' = "input_doc"
          /\ UNCHANGED <<cardError, deleting, removingFromDashboard,
                         showDeleteConfirm>>
       \/ /\ \E m \in DeleteObjectErrors(storage, target.aiOutputStoragePath) :
               CatchDelete(m, "input_failed")
          /\ UNCHANGED storage
    /\ UNCHANGED <<photo, deletingAi, target, cpcAtConfirm>>
    /\ UNCHANGED <<modelVersion, prompt, cpc, processing, cardStatus, aiOutputUrl,
                   caught, imageUrl, storagePath, downloads, photoDoc, aiResponses>>
    /\ UNCHANGED <<pollVars, orientVars, pairVars, galleryVars, uploadVars, svcVars>>

\* deleteDoc(photoDoc) of handleDeleteInput settles.
DeleteInputDocSettles ==
    /\ dpc = "input_doc"
    /\ \/ /\ photoDoc' = NoPhotoDoc
          /\ dpc' = "input_done"
          /\ UNCHANGED <<cardError, deleting, removingFromDashboard,
                         showDeleteConfirm>>
       \/ /\ \E m \in FirestoreErrors : CatchDelete(m, "input_failed")
          /\ UNCHANGED photoDoc
    /\ UNCHANGED <<photo, deletingAi, target, cpcAtConfirm>>
    /\ UNCHANGED <<modelVersion, prompt, cpc, processing, cardStatus, aiOutputUrl,
                   caught, imageUrl, storagePath, downloads, storage, aiResponses>>
    /\ UNCHANGED <<pollVars, orientVars, pairVars, galleryVars, uploadVars, svcVars>>

\* The catch and finally blocks of handleDeleteAi.
CatchDeleteAi(m) ==
    /\ cardError' = m
    /\ showDeleteConfirm' = "null"
    /\ deletingAi' = FALSE
    /\ dpc' = "ai_failed"

\* handleDeleteAi: the first click (the button is rendered when the card has
\* an aiOutputUrl) asks for confirmation; the confirming click runs up to the
\* first await: deleteObject of the AI blob when the photo has an
\* aiOutputStoragePath, else updateDoc.
HandleDeleteAi ==
    /\ photo.exists
    /\ IF showDeleteConfirm # "ai"
         THEN /\ aiOutputUrl # NullUrl
              /\ ~deletingAi
              /\ showDeleteConfirm' = "ai"
              /\ UNCHANGED <<deletingAi, dpc, target, cpcAtConfirm, cardError>>
         ELSE /\ ~Busy
              /\ deletingAi' = TRUE
              /\ cardError' = NoError
              /\ target' = photo
              /\ cpcAtConfirm' = cpc
              /\ dpc' = IF HasAiOutputPath(photo) THEN "ai_blob" ELSE "ai_doc"
              /\ UNCHANGED showDeleteConfirm
    /\ UNCHANGED <<photo, deleting, removingFromDashboard>>
    /\ UNCHANGED <<modelVersion, prompt, cpc, processing, cardStatus, aiOutputUrl,
                   caught, imageUrl, storagePath, downloads, storage, photoDoc,
                   aiResponses>>
    /\ UNCHANGED <<pollVars, orientVars, pairVars, galleryVars, uploadVars, svcVars>>

\* deleteObject(outputStorageRef) of handleDeleteAi settles; on success
\* updateDoc is issued.
DeleteAiBlobSettles ==
    /\ dpc = "ai_blob"
    /\ \/ /\ target.aiOutputStoragePath \in StoredPaths
          /\ storage' = DeleteObject(storage, target.aiOutputStoragePath)
          /\ dpc' = "ai_doc"
          /\ UNCHANGED <<cardError, showDeleteConfirm, deletingAi>>
       \/ /\ \E m \in DeleteObjectErrors(storage, target.aiOutputStoragePath) :
               CatchDeleteAi(m)
          /\ UNCHANGED storage
    /\ UNCHANGED <<photo, deleting, removingFromDashboard, target, cpcAtConfirm>>
    /\ UNCHANGED <<modelVersion, prompt, cpc, processing, cardStatus, aiOutputUrl,
                   caught, imageUrl, storagePath, downloads, photoDoc, aiResponses>>
    /\ UNCHANGED <<pollVars, orientVars, pairVars, galleryVars, uploadVars, svcVars>>

\* updateDoc of handleDeleteAi settles (it rejects when the document is
\* gone); on success setAiOutputUrl(null), setShowDeleteConfirm(null); then
\* the finally block.
DeleteAiDocSettles ==
    /\ dpc = "ai_doc"
    /\ \/ /\ photoDoc.exists
          /\ photoDoc' = ClearAiFields(photoDoc)
          /\ aiOutputUrl' = NullUrl
          /\ showDeleteConfirm' = "null"
          /\ deletingAi' = FALSE
          /\ dpc' = "ai_done"
          /\ UNCHANGED cardError
       \/ /\ \E m \in FirestoreErrors : CatchDeleteAi(m)
          /\ UNCHANGED <<photoDoc, aiOutputUrl>>
    /\ UNCHANGED <<photo, deleting, removingFromDashboard, target, cpcAtConfirm>>
    /\ UNCHANGED <<modelVersion, prompt, cpc, processing, cardStatus, caught,
                   imageUrl, storagePath, downloads, storage, aiResponses>>
    /\ UNCHANGED <<pollVars, orientVars, pairVars, galleryVars, uploadVars, svcVars>>

\* handleRemoveFromDashboard: the first click asks for confirmation, the
\* confirming click runs up to its only await, deleteDoc.
\* A remove button that deletes at the first click.
HandleRemoveFromDashboard_OneStep ==
    /\ photo.exists
    /\ ~Busy
    /\ removingFromDashboard' = TRUE
    /\ cardError' = NoError
    /\ target' = photo
    /\ cpcAtConfirm' = cpc
    /\ dpc' = "remove_doc"
    /\ UNCHANGED showDeleteConfirm
    /\ UNCHANGED <<photo, deleting, deletingAi>>
    /\ UNCHANGED <<modelVersion, prompt, cpc, processing, cardStatus, aiOutputUrl,
                   caught, imageUrl, storagePath, downloads, storage, photoDoc,
                   aiResponses>>
    /\ UNCHANGED <<pollVars, orientVars, pairVars, galleryVars, uploadVars, svcVars>>
HandleRemoveFromDashboard ==
    /\ photo.exists
    /\ IF showDeleteConfirm # "remove"
         THEN /\ ~removingFromDashboard
              /\ showDeleteConfirm' = "remove"
              /\ UNCHANGED <<removingFromDashboard, dpc, target, cpcAtConfirm,
                             cardError>>
         ELSE /\ ~Busy
              /\ removingFromDashboard' = TRUE
              /\ cardError' = NoError
              /\ target' = photo
              /\ cpcAtConfirm' = cpc
              /\ dpc' = "remove_doc"
              /\ UNCHANGED showDeleteConfirm
    /\ UNCHANGED <<photo, deleting, deletingAi>>
    /\ UNCHANGED <<modelVersion, prompt, cpc, processing, cardStatus, aiOutputUrl,
                   caught, imageUrl, storagePath, downloads, storage, photoDoc,
                   aiResponses>>
    /\ UNCHANGED <<pollVars, orientVars, pairVars, galleryVars, uploadVars, svcVars>>

\* deleteDoc(photoDoc) of handleRemoveFromDashboard settles.
RemoveDocSettles_DeletesInput ==
    /\ dpc = "remove_doc"
    /\ photoDoc' = NoPhotoDoc
    /\ storage' = DeleteObject(storage, target.storagePath)
    /\ dpc' = "remove_done"
    /\ UNCHANGED <<cardError, deleting, removingFromDashboard, showDeleteConfirm>>
    /\ UNCHANGED <<photo, deletingAi, target, cpcAtConfirm>>
    /\ UNCHANGED <<modelVersion, prompt, cpc, processing, cardStatus, aiOutputUrl,
                   caught, imageUrl, storagePath, downloads, aiResponses>>
    /\ UNCHANGED <<pollVars, orientVars, pairVars, galleryVars, uploadVars, svcVars>>
RemoveDocSettles ==
    /\ dpc = "remove_doc"
    /\ \/ /\ photoDoc' = NoPhotoDoc
          /\ dpc' = "remove_done"
          /\ UNCHANGED <<cardError, deleting, removingFromDashboard,
                         showDeleteConfirm>>
       \/ /\ \E m \in FirestoreErrors : CatchDelete(m, "remove_failed")
          /\ UNCHANGED photoDoc
    /\ UNCHANGED <<photo, deletingAi, target, cpcAtConfirm>>
    /\ UNCHANGED <<modelVersion, prompt, cpc, processing, cardStatus, aiOutputUrl,
                   caught, imageUrl, storagePath, downloads, storage, aiResponses>>
    /\ UNCHANGED <<pollVars, orientVars, pairVars, galleryVars, uploadVars, svcVars>>

\* handleCancelDelete: the banner's Cancel button.
HandleCancelDelete ==
    /\ photo.exists
    /\ showDeleteConfirm # "null"
    /\ ~Busy
    /\ showDeleteConfirm' = "null"
    /\ UNCHANGED <<photo, deleting, deletingAi, removingFromDashboard, dpc, target,
                   cpcAtConfirm>>
    /\ UNCHANGED <<dashVars, orientVars, pairVars, galleryVars, uploadVars, svcVars>>

ManageIdle ==
    /\ photo = InitialPhotoDoc
    /\ showDeleteConfirm = "null"
    /\ deleting = FALSE
    /\ deletingAi = FALSE
    /\ removingFromDashboard = FALSE
    /\ dpc = "idle"
    /\ target = InitialPhotoDoc
    /\ cpcAtConfirm = "idle"

(* ------------------------------------------------------------------ *)
(* The session's photos, the collage page and GET /api/download        *)
(* ------------------------------------------------------------------ *)

\* The other documents of sessions/s1/photos; nothing here writes them.
OtherPhotoDoc(id, at, hasAi) ==
    LET inPath == [dir |-> "stant_images/input", session |-> SessionId,
                   photo |-> "", ts |-> at]
        outPath == [dir |-> "stant_images/ai", session |-> SessionId,
                    photo |-> id, ts |-> at]
    IN  [ exists |-> TRUE, id |-> id, url |-> DownloadUrl(inPath),
          storagePath |-> inPath, uploadedAt |-> at,
          aiOutputUrl |-> IF hasAi THEN DownloadUrl(outPath) ELSE NullUrl,
          aiOutputStoragePath |-> IF hasAi THEN outPath ELSE NoPath,
          aiProcessed |-> hasAi ]
OtherPhotoDocs ==
    { OtherPhotoDoc("p0", 1, TRUE), OtherPhotoDoc("p2", 3, TRUE),
      OtherPhotoDoc("p3", 4, FALSE) }

\* query(photosCollection, orderBy('uploadedAt', 'desc')): snapshot.docs
RECURSIVE OrderByUploadedAtDesc(_)
OrderByUploadedAtDesc(docs) ==
    IF docs = {} THEN <<>>
    ELSE LET first == CHOOSE d \in docs : \A e \in docs : e.uploadedAt <= d.uploadedAt
         IN  <<first>> \o OrderByUploadedAtDesc(docs \ {first})
SnapshotDocs(doc) ==
    OrderByUploadedAtDesc(OtherPhotoDocs \cup (IF doc.exists THEN {doc} ELSE {}))

\* The truthiness of an aiOutputUrl field (null and undefined are falsy).
Truthy(url) == url # NullUrl

\* .map((doc) => ({id, url, storagePath, uploadedAt, aiOutputUrl, ...}))
ToPhoto(d) ==
    [ id |-> d.id, url |-> d.url, storagePath |-> d.storagePath,
      uploadedAt |-> d.uploadedAt, aiOutputUrl |-> d.aiOutputUrl,
      aiOutputStoragePath |-> d.aiOutputStoragePath, aiProcessed |-> d.aiProcessed ]

\* .filter((photo) => photo.aiOutputUrl)
RECURSIVE WithAiOutput(_)
WithAiOutput(list) ==
    IF list = <<>> THEN <<>>
    ELSE IF Truthy(Head(list).aiOutputUrl)
      THEN <<Head(list)>> \o WithAiOutput(Tail(list))
      ELSE WithAiOutput(Tail(list))

\* The list the snapshot callback hands to setPhotos.
PhotosList_Unfiltered(docs) == [i \in 1..Len(docs) |-> ToPhoto(docs[i])]
PhotosList(docs) == WithAiOutput([i \in 1..Len(docs) |-> ToPhoto(docs[i])])

\* const aiPhotos = photos.filter(photo => photo.aiOutputUrl)
aiPhotos == WithAiOutput(collagePhotos)

\* The collage page's onSnapshot callback.
CollageSnapshot ==
    /\ collagePhotos' = PhotosList(SnapshotDocs(photoDoc))
    /\ collageLoading' = FALSE
    /\ collageLoading \/ collagePhotos' # collagePhotos
    /\ UNCHANGED <<rpc, response>>
    /\ UNCHANGED <<dashVars, orientVars, pairVars, manageVars, uploadVars, svcVars>>

\* The responses of GET /api/download/{sessionId}/{photoId}.
NoResponse == [status |-> 0, error |-> "", location |-> NullUrl]
JsonResponse(message, status) ==
    [status |-> status, error |-> message, location |-> NullUrl]
Redirect(url) == [status |-> 307, error |-> "", location |-> url]

\* The body of the try block once photoDoc.get() resolved.
Respond_NoAiCheck(snapshot) ==
    IF ~snapshot.exists
      THEN JsonResponse("Photo not found", 404)
      ELSE Redirect(snapshot.aiOutputUrl)
Respond(snapshot) ==
    IF ~snapshot.exists
      THEN JsonResponse("Photo not found", 404)
      ELSE IF ~Truthy(snapshot.aiOutputUrl)
        THEN JsonResponse("AI output not available for this photo", 404)
        ELSE Redirect(snapshot.aiOutputUrl)

\* Messages of the errors the Admin SDK lookup throws.
LookupErrors == {"Firestore: unavailable"}

\* A request for photo p1 of session s1 arrives: photoDoc.get() is issued.
DownloadGet ==
    /\ rpc = "idle"
    /\ rpc' = "get_wait"
    /\ response' = NoResponse
    /\ UNCHANGED <<collagePhotos, collageLoading>>
    /\ UNCHANGED <<dashVars, orientVars, pairVars, manageVars, uploadVars, svcVars>>

\* photoDoc.get() settles: the response is returned.
DownloadGetSettles ==
    /\ rpc = "get_wait"
    /\ \/ response' = Respond(photoDoc)
       \/ \E m \in LookupErrors : response' = JsonResponse(m, 500)
    /\ rpc' = "idle"
    /\ UNCHANGED <<collagePhotos, collageLoading>>
    /\ UNCHANGED <<dashVars, orientVars, pairVars, manageVars, uploadVars, svcVars>>

GalleryIdle ==
    /\ collagePhotos = <<>>
    /\ collageLoading = TRUE
    /\ rpc = "idle"
    /\ response = NoResponse

(* ------------------------------------------------------------------ *)
(* MobileUploadPage.handleFileSelect                                   *)
(* ------------------------------------------------------------------ *)

\* The document addDoc writes: {url, storagePath, uploadedAt}.
UploadedPhotoDoc(path) == [url |-> DownloadUrl(path), storagePath |-> path]

\* catch (err): setError(err.message); finally: setUploading(false).
CatchUpload(m) ==
    /\ uploadError' = <<m>>
    /\ uploading' = FALSE
    /\ upc' = "done"

\* A file was picked (the input is disabled while uploading): the state is
\* reset and normalizeImageOrientation runs up to its FileReader.
HandleFileSelect ==
    /\ upc = "idle"
    /\ ~uploading
    /\ npc = "idle"
    /\ uploading' = TRUE
    /\ uploadError' = NoError
    /\ uploadSuccess' = FALSE
    /\ npc' = "read_wait"
    /\ upc' = "await_normalize"
    /\ UNCHANGED <<uploadPath, added>>
    /\ UNCHANGED <<file, imgW, imgH, orientation, canvasW, canvasH, canvas, blob,
                   settled>>
    /\ UNCHANGED <<dashVars, pairVars, manageVars, galleryVars, svcVars>>

\* normalizeImageOrientation settled: on success Date.now() is read and
\* uploadBytes is issued.
AfterNormalize ==
    /\ upc = "await_normalize"
    /\ npc = "done"
    /\ settled # <<>>
    /\ IF settled[1] = Resolved
         THEN /\ \E ts \in Times : uploadPath' = InputPath(ts)
              /\ upc' = "await_upload"
              /\ UNCHANGED <<uploading, uploadError>>
         ELSE /\ CatchUpload(settled[1][2])
              /\ UNCHANGED uploadPath
    /\ UNCHANGED <<uploadSuccess, added>>
    /\ UNCHANGED <<dashVars, orientVars, pairVars, manageVars, galleryVars, svcVars>>

\* uploadBytes(storageRef, normalizedFile) settles; on success
\* getDownloadURL is issued.
UploadBytesSettles ==
    /\ upc = "await_upload"
    /\ \/ /\ storage' = Upload(storage, uploadPath, JStr("image/png"))
          /\ upc' = "await_url"
          /\ UNCHANGED <<uploading, uploadError>>
       \/ /\ \E m \in StorageErrors : CatchUpload(m[1])
          /\ UNCHANGED storage
    /\ UNCHANGED <<uploadSuccess, uploadPath, added>>
    /\ UNCHANGED <<modelVersion, prompt, cpc, processing, cardError, cardStatus,
                   aiOutputUrl, caught, imageUrl, storagePath, downloads, photoDoc,
                   aiResponses>>
    /\ UNCHANGED <<pollVars, orientVars, pairVars, manageVars, galleryVars, svcVars>>

\* getDownloadURL(storageRef) settles; on success addDoc is issued.
UploadUrlSettles ==
    /\ upc = "await_url"
    /\ \/ /\ upc' = "await_add"
          /\ UNCHANGED <<uploading, uploadError>>
       \/ \E m \in StorageErrors : CatchUpload(m[1])
    /\ UNCHANGED <<uploadSuccess, uploadPath, added>>
    /\ UNCHANGED <<dashVars, orientVars, pairVars, manageVars, galleryVars, svcVars>>

\* addDoc(photosCollection, {...}) settles; on success
\* setUploadSuccess(true), the 3 s timer is set, and the finally block.
UploadAddDocSettles ==
    /\ upc = "await_add"
    /\ \/ /\ added' = Append(added, UploadedPhotoDoc(uploadPath))
          /\ uploadSuccess' = TRUE
          /\ uploading' = FALSE
          /\ upc' = "done"
          /\ UNCHANGED uploadError
       \/ /\ \E m \in FirestoreErrors : CatchUpload(m[1])
          /\ UNCHANGED <<added, uploadSuccess>>
    /\ UNCHANGED uploadPath
    /\ UNCHANGED <<dashVars, orientVars, pairVars, manageVars, galleryVars, svcVars>>

\* setTimeout(() => setUploadSuccess(false), 3000) fires.
SuccessTimerFires ==
    /\ upc = "done"
    /\ uploadSuccess
    /\ uploadSuccess' = FALSE
    /\ UNCHANGED <<upc, uploading, uploadError, uploadPath, added>>
    /\ UNCHANGED <<dashVars, orientVars, pairVars, manageVars, galleryVars, svcVars>>

UploadIdle ==
    /\ upc = "idle"
    /\ uploading = FALSE
    /\ uploadSuccess = FALSE
    /\ uploadError = NoError
    /\ uploadPath = NoPath
    /\ added = <<>>

(* ------------------------------------------------------------------ *)
(* POST /api/replicate                                                 *)
(* ------------------------------------------------------------------ *)

\* A field the JSON body does not carry, an environment variable not set.
Undefined == "undefined"
\* !value for the strings the handler tests.
Falsy(v) == v \in {Undefined, ""}

\* What request.json() yields: no JSON at all (it rejects), the JSON null
\* (the destructuring throws), or an object with the fields it carries.
RequestActions == {"create", "get", "cancel", Undefined}
PredictionIds == {"pred1", "", Undefined}
NoBody == [kind |-> "none", action |-> Undefined, predictionId |-> Undefined]
Bodies ==
    [kind : {"invalid", "null"}, action : {Undefined}, predictionId : {Undefined}]
    \cup [kind : {"object"}, action : RequestActions, predictionId : PredictionIds]

\* process.env.REPLICATE_API_TOKEN
Tokens == {Undefined, "", "r8_token"}

\* The two upstream requests.
CreateRequest ==
    [method |-> "POST", url |-> <<"https://api.replicate.com/v1/predictions">>]
GetRequest(id) ==
    [method |-> "GET", url |-> <<"https://api.replicate.com/v1/predictions/", id>>]

\* Status codes of the upstream API; response.ok is 200..299.
UpstreamStatuses == {200, 201, 401, 404, 422, 500}
Ok(status) == status >= 200 /\ status <= 299
NoUpstreamResponse == [status |-> 0]

\* NextResponse.json(...): via tells the try block's answers from the catch's.
NoReply == [status |-> 0, error |-> <<>>, data |-> "none", via |-> "none"]
RouteJson(message, status) ==
    [status |-> status, error |-> message, data |-> "none", via |-> "try"]
RouteData == [status |-> 200, error |-> <<>>, data |-> "prediction", via |-> "try"]
RouteCaught(message) ==
    [status |-> 500, error |-> message, data |-> "none", via |-> "catch"]

\* if (!predictionId)
HasPredictionId_Always(id) == TRUE
HasPredictionId(id) == ~Falsy(id)

\* The handler from the token test to its first upstream fetch or its
\* answer: fetch holds the request it issues, reply the answer it returns.
Dispatch(b, t) ==
    IF Falsy(t)
      THEN [fetch |-> <<>>,
            reply |-> RouteJson(<<"Replicate API token not configured">>, 500)]
      ELSE IF b.action = "create"
        THEN [fetch |-> <<CreateRequest>>, reply |-> NoReply]
        ELSE IF b.action = "get"
          THEN IF ~HasPredictionId(b.predictionId)
                 THEN [fetch |-> <<>>,
                       reply |-> RouteJson(<<"Prediction ID is required">>, 400)]
                 ELSE [fetch |-> <<GetRequest(b.predictionId)>>, reply |-> NoReply]
          ELSE [fetch |-> <<>>,
                reply |-> RouteJson(<<"Invalid action. Use \"create\" or \"get\"">>, 400)]

\* `Failed to create prediction: ${error}` / `Failed to get prediction: ${error}`
UpstreamFailure(b, text) ==
    IF b.action = "create"
      THEN <<"Failed to create prediction: ", text>>
      ELSE <<"Failed to get prediction: ", text>>

\* Messages of what request.json(), fetch, response.text() and
\* response.json() throw.
BodyErrors == {<<"Unexpected end of JSON input">>}
DestructureError == <<"Cannot destructure property 'action' of 'body' as it is null.">>
FetchErrors == {<<"fetch failed">>}
UpstreamTexts == {"", "upstream"}

\* A request arrives: request.json() is awaited.
RoutePost ==
    /\ qpc \in {"idle", "done"}
    /\ \E b \in Bodies : body' = b
    /\ qpc' = "body_wait"
    /\ token' = Undefined
    /\ upstream' = <<>>
    /\ upstreamResponse' = NoUpstreamResponse
    /\ reply' = NoReply
    /\ UNCHANGED <<dashVars, orientVars, pairVars, manageVars, galleryVars,
                   uploadVars, pollerVars, clientVars>>

\* request.json() settles: the body is destructured, the token read and the
\* action dispatched, up to the upstream fetch or the answer.
RouteBodySettles ==
    /\ qpc = "body_wait"
    /\ IF body.kind = "invalid"
         THEN /\ \E m \in BodyErrors : reply' = RouteCaught(m)
              /\ qpc' = "done"
              /\ UNCHANGED <<token, upstream>>
         ELSE IF body.kind = "null"
           THEN /\ reply' = RouteCaught(DestructureError)
                /\ qpc' = "done"
                /\ UNCHANGED <<token, upstream>>
           ELSE \E t \in Tokens :
                  LET d == Dispatch(body, t) IN
                  /\ token' = t
                  /\ upstream' = d.fetch
                  /\ reply' = d.reply
                  /\ qpc' = IF d.fetch = <<>> THEN "done" ELSE "fetch_wait"
    /\ UNCHANGED <<body, upstreamResponse>>
    /\ UNCHANGED <<dashVars, orientVars, pairVars, manageVars, galleryVars,
                   uploadVars, pollerVars, clientVars>>

\* The upstream fetch settles: a rejection goes to the catch; a response
\* is read as text when it is not OK and as JSON when it is.
RouteFetchSettles ==
    /\ qpc = "fetch_wait"
    /\ \/ /\ \E m \in FetchErrors : reply' = RouteCaught(m)
          /\ qpc' = "done"
          /\ UNCHANGED upstreamResponse
       \/ \E st \in UpstreamStatuses :
            /\ upstreamResponse' = [status |-> st]
            /\ qpc' = IF Ok(st) THEN "json_wait" ELSE "text_wait"
            /\ UNCHANGED reply
    /\ UNCHANGED <<body, token, upstream>>
    /\ UNCHANGED <<dashVars, orientVars, pairVars, manageVars, galleryVars,
                   uploadVars, pollerVars, clientVars>>

\* response.text() of a non-OK upstream response settles.
RouteTextSettles ==
    /\ qpc = "text_wait"
    /\ \/ \E text \in UpstreamTexts :
            reply' = RouteJson(UpstreamFailure(body, text), upstreamResponse.status)
       \/ \E m \in FetchErrors : reply' = RouteCaught(m)
    /\ qpc' = "done"
    /\ UNCHANGED <<body, token, upstream, upstreamResponse>>
    /\ UNCHANGED <<dashVars, orientVars, pairVars, manageVars, galleryVars,
                   uploadVars, pollerVars, clientVars>>

\* response.json() of an OK upstream response settles.
RouteJsonSettles ==
    /\ qpc = "json_wait"
    /\ \/ reply' = RouteData
       \/ \E m \in BodyErrors : reply' = RouteCaught(m)
    /\ qpc' = "done"
    /\ UNCHANGED <<body, token, upstream, upstreamResponse>>
    /\ UNCHANGED <<dashVars, orientVars, pairVars, manageVars, galleryVars,
                   uploadVars, pollerVars, clientVars>>

RouteIdle ==
    /\ qpc = "idle"
    /\ body = NoBody
    /\ token = Undefined
    /\ upstream = <<>>
    /\ upstreamResponse = NoUpstreamResponse
    /\ reply = NoReply

(* ------------------------------------------------------------------ *)
(* pollPrediction                                                      *)
(* ------------------------------------------------------------------ *)

\* Largest maxAttempts a call is given.
MaxPollAttempts == 3

\* while (attempts < maxAttempts)
PollLoopCondition(att, max) == att < max

\* prediction.status === 'succeeded' || ... 'failed' || ... 'canceled'
IsTerminal_SucceededOnly(status) == status = "succeeded"
IsTerminal(status) ==
    status = "succeeded" \/ status = "failed" \/ status = "canceled"

NoPollOutcome == [kind |-> "pending", prediction |-> NoJob, error |-> NoError]
PollReturned(j) == [kind |-> "returned", prediction |-> j, error |-> NoError]
PollThrown(m) == [kind |-> "thrown", prediction |-> NoJob, error |-> m]

\* The loop head: test the counter, then issue getPrediction or throw.
PollLoopHead(att) ==
    IF PollLoopCondition(att, pMaxAttempts)
      THEN /\ ppc' = "get_wait"
           /\ pReads' = pReads + 1
           /\ pOutcome' = pOutcome
      ELSE /\ ppc' = "thrown"
           /\ pReads' = pReads
           /\ pOutcome' = PollThrown(TimeoutMessage)

\* pollPrediction(id, token, interval, maxAttempts) is called: attempts = 0
\* and the first loop test.
CallPollPrediction ==
    /\ ppc = "idle"
    /\ \E max \in 0..MaxPollAttempts :
         /\ pMaxAttempts' = max
         /\ pAttempts' = 0
         /\ IF PollLoopCondition(0, max)
              THEN ppc' = "get_wait" /\ pReads' = 1 /\ pOutcome' = pOutcome
              ELSE /\ ppc' = "thrown"
                   /\ pReads' = 0
                   /\ pOutcome' = PollThrown(TimeoutMessage)
    /\ UNCHANGED <<pJob, pObserved>>
    /\ UNCHANGED <<dashVars, orientVars, pairVars, manageVars, galleryVars,
                   uploadVars, routeVars, clientVars>>

\* getPrediction resolves: a terminal prediction is returned, any other
\* starts the wait.
PollGetResolves ==
    /\ ppc = "get_wait"
    /\ \E j \in RemoteNext(pJob, Len(pObserved)) :
         /\ pJob' = j
         /\ pObserved' = Append(pObserved, j.status)
         /\ IF IsTerminal(j.status)
              THEN ppc' = "returned" /\ pOutcome' = PollReturned(j)
              ELSE ppc' = "sleep" /\ pOutcome' = pOutcome
    /\ UNCHANGED <<pMaxAttempts, pAttempts, pReads>>
    /\ UNCHANGED <<dashVars, orientVars, pairVars, manageVars, galleryVars,
                   uploadVars, routeVars, clientVars>>

\* getPrediction throws: the error leaves pollPrediction.
PollGetRejects ==
    /\ ppc = "get_wait"
    /\ \E m \in GetRequestErrors : pOutcome' = PollThrown(m)
    /\ ppc' = "thrown"
    /\ UNCHANGED <<pMaxAttempts, pAttempts, pReads, pJob, pObserved>>
    /\ UNCHANGED <<dashVars, orientVars, pairVars, manageVars, galleryVars,
                   uploadVars, routeVars, clientVars>>

\* The setTimeout(resolve, interval) fires: attempts++, next loop test.
PollTimerFires ==
    /\ ppc = "sleep"
    /\ pAttempts' = pAttempts + 1
    /\ PollLoopHead(pAttempts + 1)
    /\ UNCHANGED <<pMaxAttempts, pJob, pObserved>>
    /\ UNCHANGED <<dashVars, orientVars, pairVars, manageVars, galleryVars,
                   uploadVars, routeVars, clientVars>>

PollerIdle ==
    /\ ppc = "idle"
    /\ pMaxAttempts = 0
    /\ pAttempts = 0
    /\ pReads = 0
    /\ pJob = NoJob
    /\ pObserved = <<>>
    /\ pOutcome = NoPollOutcome

(* ------------------------------------------------------------------ *)
(* Several clients storing blobs of one session                        *)
(* ------------------------------------------------------------------ *)

\* Two phones on the upload page and two dashboards running the AI on
\* photo p1.
MobileClients == {"m1", "m2"}
DashboardClients == {"d1", "d2"}
Clients == MobileClients \cup DashboardClients

\* The last millisecond the clients' uploads can fall into.
MaxNow == 3

\* `stant_images/input/${sessionId}/${timestamp}.jpg` on the upload page,
\* `stant_images/ai/${sessionId}/${photo.id}_${timestamp}.jpg` on the card.
PathFor(c, timestamp) ==
    IF c \in MobileClients THEN InputPath(timestamp) ELSE AiPath(timestamp)

\* The bytes a client uploads: they differ from client to client.
BytesOf(c) == JStr(c)

NewClient == [pc |-> "idle", timestamp |-> 0, path |-> NoPath]

\* A millisecond passes.
Tick ==
    /\ now < MaxNow
    /\ now' = now + 1
    /\ UNCHANGED <<clients, records>>
    /\ UNCHANGED <<dashVars, orientVars, pairVars, manageVars, galleryVars,
                   uploadVars, routeVars, pollerVars>>

\* const timestamp = Date.now(); the storage reference is made and
\* uploadBytes is issued.
ClientUploads(c) ==
    /\ clients[c].pc = "idle"
    /\ clients' = [clients EXCEPT ![c] = [pc |-> "await_upload", timestamp |-> now,
                                          path |-> PathFor(c, now)]]
    /\ UNCHANGED <<now, records>>
    /\ UNCHANGED <<dashVars, orientVars, pairVars, manageVars, galleryVars,
                   uploadVars, routeVars, pollerVars>>

\* uploadBytes settles; on success getDownloadURL is issued.
ClientUploadSettles(c) ==
    /\ clients[c].pc = "await_upload"
    /\ \/ /\ storage' = Upload(storage, clients[c].path, BytesOf(c))
          /\ clients' = [clients EXCEPT ![c].pc = "await_url"]
       \/ /\ clients' = [clients EXCEPT ![c].pc = "failed"]
          /\ UNCHANGED storage
    /\ UNCHANGED <<now, records>>
    /\ UNCHANGED <<modelVersion, prompt, cpc, processing, cardError, cardStatus,
                   aiOutputUrl, caught, imageUrl, storagePath, downloads, photoDoc,
                   aiResponses>>
    /\ UNCHANGED <<pollVars, orientVars, pairVars, manageVars, galleryVars,
                   uploadVars, routeVars, pollerVars>>

\* getDownloadURL settles; on success the document write is issued: addDoc
\* of the photo on the upload page, updateDoc of the photo on the card.
ClientUrlSettles(c) ==
    /\ clients[c].pc = "await_url"
    /\ \E next \in {"await_doc", "failed"} :
         clients' = [clients EXCEPT ![c].pc = next]
    /\ UNCHANGED <<now, records>>
    /\ UNCHANGED <<dashVars, orientVars, pairVars, manageVars, galleryVars,
                   uploadVars, routeVars, pollerVars>>

\* The document write settles: the document names the client's path.
ClientDocSettles(c) ==
    /\ clients[c].pc = "await_doc"
    /\ \/ /\ records' = records \cup {[by |-> c, storagePath |-> clients[c].path]}
          /\ clients' = [clients EXCEPT ![c].pc = "done"]
       \/ /\ clients' = [clients EXCEPT ![c].pc = "failed"]
          /\ UNCHANGED records
    /\ UNCHANGED now
    /\ UNCHANGED <<dashVars, orientVars, pairVars, manageVars, galleryVars,
                   uploadVars, routeVars, pollerVars>>

ClientsIdle ==
    /\ now = InitialPhotoDoc.uploadedAt
    /\ clients = [c \in Clients |-> NewClient]
    /\ records = {}

SvcIdle == RouteIdle /\ PollerIdle /\ ClientsIdle

PageIdle ==
    /\ PairIdle
    /\ ManageIdle
    /\ GalleryIdle
    /\ UploadIdle
    /\ SvcIdle

(* ------------------------------------------------------------------ *)
(* The dashboard: one card, one invocation of runReplicate             *)
(* ------------------------------------------------------------------ *)

DashIdle ==
    /\ caller = "none"
    /\ hasProgress = FALSE
    /\ pc = "idle"
    /\ attempts = 0
    /\ job = NoJob
    /\ creates = 0
    /\ reads = 0
    /\ inflight = "none"
    /\ observed = <<>>
    /\ progress = <<>>
    /\ outcome = NoOutcome
    /\ modelVersion \in ModelVersions
    /\ prompt = <<>>
    /\ cpc = "idle"
    /\ processing = FALSE
    /\ cardError = NoError
    /\ cardStatus = <<>>
    /\ aiOutputUrl = NullUrl
    /\ caught = NoError
    /\ imageUrl = JNull
    /\ storagePath = NoPath
    /\ downloads = <<>>
    /\ storage = { [path |-> InputPath(1), content |-> JStr("input")] }
    /\ photoDoc = InitialPhotoDoc
    /\ aiResponses = <<>>

Init ==
    /\ DashIdle
    /\ file = NoFile
    /\ OrientIdle
    /\ PageIdle

Next ==
    \/ CallRunReplicate
    \/ CreateResolves
    \/ CreateRejects
    \/ GetResolves
    \/ GetRejects
    \/ TimerFires
    \/ TypePrompt
    \/ HandleRunAI
    \/ AfterRunReplicate
    \/ DownloadSettles
    \/ UploadSettles
    \/ GetUrlSettles
    \/ UpdateDocSettles
    \/ AddDocSettles
    \/ FailedAddDocSettles

Spec == Init /\ [][Next]_vars

(* ------------------------------------------------------------------ *)
(* The mobile page's normalizer: one file, one call                    *)
(* ------------------------------------------------------------------ *)

InitOrient ==
    /\ DashIdle
    /\ file \in Files
    /\ OrientIdle
    /\ PageIdle

NextOrient ==
    \/ Normalize
    \/ ReaderSettles
    \/ ImageSettles
    \/ OrientationReaderSettles
    \/ ToBlobSettles

SpecOrient == InitOrient /\ [][NextOrient]_vars

\* The browser delivers every event it owes: a FileReader, an Image and a
\* canvas.toBlob each call their handler after a finite time.
SpecOrientFair == SpecOrient /\ WF_vars(NextOrient)

(* ------------------------------------------------------------------ *)
(* Two invocations of runReplicate side by side                        *)
(* ------------------------------------------------------------------ *)

NextPair ==
    \E r \in Runs :
        \/ PairCall(r)
        \/ PairCreateResolves(r)
        \/ PairCreateRejects(r)
        \/ PairGetResolves(r)
        \/ PairGetRejects(r)
        \/ PairTimerFires(r)

\* The card plays no part here; its settings are fixed.
InitConfigured == Init /\ modelVersion = "v1"

SpecPair == InitConfigured /\ [][NextPair]_vars

(* ------------------------------------------------------------------ *)
(* The card with its delete handlers on the dashboard                  *)
(* ------------------------------------------------------------------ *)

\* The prediction of the card's run ends within this many status reads.
MaxCardReads == 2

\* What the prediction of the card's run delivers here: one image URL, or
\* nothing.
CardJobOutputs == { JNull, JArr(<<JStr("u1")>>) }

\* A step of the card's AI run (see Next); clicks need the card on screen.
RunStep ==
    /\ Next
    /\ caller' # "lib"
    /\ reads' <= MaxCardReads
    /\ job'.output \in CardJobOutputs
    /\ job'.error = ""
    /\ cpc = "idle" => photo.exists

NextCard ==
    \/ RunStep
    \/ DashboardSnapshot
    \/ HandleDeleteInput
    \/ DeleteInputBlobSettles
    \/ DeleteInputAiSettles
    \/ DeleteInputDocSettles
    \/ HandleDeleteAi
    \/ DeleteAiBlobSettles
    \/ DeleteAiDocSettles
    \/ HandleRemoveFromDashboard
    \/ RemoveDocSettles
    \/ HandleCancelDelete

SpecCard == InitConfigured /\ [][NextCard]_vars

(* ------------------------------------------------------------------ *)
(* The collage page and the download route beside the card; the        *)
(* dashboard's own snapshots are left out, so the card works on the    *)
(* photo as it was first rendered                                      *)
(* ------------------------------------------------------------------ *)

NextGallery ==
    \/ RunStep
    \/ HandleDeleteAi
    \/ DeleteAiDocSettles
    \/ HandleRemoveFromDashboard
    \/ RemoveDocSettles
    \/ HandleCancelDelete
    \/ CollageSnapshot
    \/ DownloadGet
    \/ DownloadGetSettles

SpecGallery == InitConfigured /\ [][NextGallery]_vars

(* ------------------------------------------------------------------ *)
(* The mobile page: one file, one upload                               *)
(* ------------------------------------------------------------------ *)

NextUpload ==
    \/ HandleFileSelect
    \/ ReaderSettles
    \/ ImageSettles
    \/ OrientationReaderSettles
    \/ ToBlobSettles
    \/ AfterNormalize
    \/ UploadBytesSettles
    \/ UploadUrlSettles
    \/ UploadAddDocSettles
    \/ SuccessTimerFires

SpecUpload == InitOrient /\ [][NextUpload]_vars

(* ------------------------------------------------------------------ *)
(* The /api/replicate route: requests one after another                *)
(* ------------------------------------------------------------------ *)

NextRoute ==
    \/ RoutePost
    \/ RouteBodySettles
    \/ RouteFetchSettles
    \/ RouteTextSettles
    \/ RouteJsonSettles

SpecRoute == Init /\ [][NextRoute]_vars

(* ------------------------------------------------------------------ *)
(* One pollPrediction call                                             *)
(* ------------------------------------------------------------------ *)

NextPoller ==
    \/ CallPollPrediction
    \/ PollGetResolves
    \/ PollGetRejects
    \/ PollTimerFires

SpecPoller == Init /\ [][NextPoller]_vars

(* ------------------------------------------------------------------ *)
(* Concurrent uploads into one session                                 *)
(* ------------------------------------------------------------------ *)

NextClients ==
    \/ Tick
    \/ \E c \in Clients :
         \/ ClientUploads(c)
         \/ ClientUploadSettles(c)
         \/ ClientUrlSettles(c)
         \/ ClientDocSettles(c)

SpecClients == InitConfigured /\ [][NextClients]_vars

(* ------------------------------------------------------------------ *)
(* Properties of runReplicate                                          *)
(* ------------------------------------------------------------------ *)

RunEnded == pc \in {"returned", "thrown"}
LastObserved == observed[Len(observed)]
\* The statuses the status reads returned (the first observed status is
\* the create response's).
ReadStatuses == IF observed = <<>> THEN <<>> ELSE Tail(observed)
\* Status reads that came back with a status.
CompletedReads ==
    reads - (IF inflight = "get" THEN 1 ELSE 0)
          - (IF pc = "thrown" /\ reads > 0 /\ outcome.error \in GetRequestErrors
               THEN 1 ELSE 0)

\* C1: a run all of whose status reads returned a non-terminal status ends
\* with the error 'Prediction polling timed out' after exactly maxAttempts
\* status reads, and no run ever issues more than maxAttempts status reads.
C1_TimeoutAfterMaxAttempts ==
    /\ reads <= maxAttempts
    /\ ( /\ RunEnded
         /\ reads >= 1
         /\ Len(ReadStatuses) = reads
         /\ \A i \in 1..Len(ReadStatuses) : ReadStatuses[i] \notin TerminalStatuses )
       => ( /\ outcome = Thrown(TimeoutMessage)
            /\ reads = maxAttempts
            /\ attempts = maxAttempts )
    /\ outcome.error = TimeoutMessage => reads = maxAttempts
C1_Witness ==
    /\ pc = "thrown"
    /\ outcome.error = TimeoutMessage
    /\ reads = maxAttempts
    /\ Len(ReadStatuses) = maxAttempts

\* C2 as claimed: on 'succeeded' runReplicate returns the first element of a
\* multi-element output array, and a string output unchanged.
C2_ReturnsFirstElement ==
    pc = "returned" =>
        /\ (job.output.t = "array" /\ Len(job.output.a) > 1)
             => outcome.value = job.output.a[1]
        /\ job.output.t = "string" => outcome.value = job.output
\* C2 amended: on 'succeeded' runReplicate returns the remote output
\* unchanged, the whole array or the string; its caller handleRunAI takes the
\* first element of a non-empty array, or the string itself, as the image
\* URL it downloads.
C2_ReturnsOutputUnchanged ==
    /\ pc = "returned" =>
         /\ job.status = "succeeded"
         /\ outcome.kind = "returned"
         /\ outcome.value = job.output
    /\ (pc = "returned" /\ cpc = "await_download") =>
         /\ (job.output.t = "array" /\ Len(job.output.a) > 0)
              => imageUrl = job.output.a[1]
         /\ job.output.t = "string" => imageUrl = job.output
         /\ downloads = <<imageUrl>>
C2_Witness ==
    /\ pc = "returned"
    /\ outcome.value = JArr(<<JStr("u1"), JStr("u2")>>)
    /\ cpc = "await_download"
    /\ imageUrl = JStr("u1")

\* C3: when a status read returned 'failed' or 'canceled', runReplicate has
\* thrown (it returned nothing) and the message names the status and, when
\* the remote supplied an error payload, contains it.
C3_JobFailedCarriesPayload ==
    (Len(observed) >= 2 /\ LastObserved \in {"failed", "canceled"}) =>
        /\ pc = "thrown"
        /\ outcome.kind = "thrown"
        /\ outcome.value = JNull
        /\ \E i \in 1..Len(outcome.error) : outcome.error[i] = LastObserved
        /\ job.error # "" =>
             \E i \in 1..Len(outcome.error) : outcome.error[i] = job.error
        /\ outcome.error # TimeoutMessage
        /\ outcome.error \notin GetRequestErrors
C3_Witness ==
    /\ pc = "thrown"
    /\ reads >= 2
    /\ LastObserved = "canceled"
    /\ job.error = "boom"
    /\ outcome.error = <<"Replicate prediction ", "canceled", ": ", "boom">>

\* C4: with a progress callback, the callback has been called with exactly
\* the statuses the API returned so far, in that order: the create
\* response's first, then one per completed status read.
C4_ProgressFollowsObserved ==
    hasProgress =>
        /\ progress = observed
        /\ reads >= 1 => Len(progress) = 1 + CompletedReads
        /\ reads = 0 => progress = <<>>
C4_Witness ==
    /\ hasProgress
    /\ pc = "returned"
    /\ reads = 3
    /\ progress = <<"starting", "starting", "processing", "succeeded">>

\* C5 as claimed: when the status reads return processing, processing,
\* succeeded with output [u], there are three status reads, the callback is
\* called three times, with processing, processing, succeeded, and u is
\* returned.
C5_ScenarioReads == <<"processing", "processing", "succeeded">>
C5_Scenario ==
    /\ hasProgress
    /\ pc = "returned"
    /\ ReadStatuses = C5_ScenarioReads
    /\ job.output = JArr(<<JStr("u1")>>)
C5_ThreeCallbacks ==
    C5_Scenario =>
        /\ reads = 3
        /\ progress = C5_ScenarioReads
        /\ outcome.value = JStr("u1")
\* C5 amended: in that scenario there are exactly three status reads; the
\* callback is called four times, first with the status of the create
\* response and then with processing, processing, succeeded; runReplicate
\* returns the output [u] as received, and handleRunAI takes u from it.
C5_FourCallbacks ==
    C5_Scenario =>
        /\ reads = 3
        /\ Len(progress) = 4
        /\ progress[1] = observed[1]
        /\ Tail(progress) = C5_ScenarioReads
        /\ outcome.value = JArr(<<JStr("u1")>>)
        /\ cpc = "await_download" => imageUrl = JStr("u1")
C5_Witness ==
    /\ C5_Scenario
    /\ progress = <<"starting", "processing", "processing", "succeeded">>
    /\ cpc = "await_download"
    /\ imageUrl = JStr("u1")

\* C6: once a status read has returned a terminal status, no step issues
\* another status read or calls the progress callback again.
C6_TerminalIsLast ==
    [][ (Len(observed) >= 2 /\ LastObserved \in TerminalStatuses)
          => /\ reads' = reads
             /\ progress' = progress
             /\ observed' = observed
             /\ inflight' = "none" ]_vars
C6_Witness ==
    /\ hasProgress
    /\ Len(observed) >= 3
    /\ LastObserved = "canceled"
    /\ progress[Len(progress)] = "canceled"
    /\ cpc = "done"

\* C7: a step in which a status read fails (the read ends without a status)
\* ends the run with that request's error, and a run that has thrown issues
\* no further read and calls the callback no more.
C7_ReadFailurePropagates ==
    [][ /\ (pc = "get_wait" /\ pc' # "get_wait" /\ observed' = observed)
          => /\ pc' = "thrown"
             /\ outcome'.kind = "thrown"
             /\ outcome'.error \in GetRequestErrors
             /\ outcome'.error # TimeoutMessage
             /\ outcome'.error[1] # "Replicate prediction "
             /\ reads' = reads
             /\ progress' = progress
        /\ pc = "thrown"
          => /\ pc' = "thrown"
             /\ outcome' = outcome
             /\ reads' = reads
             /\ progress' = progress ]_vars
C7_Witness ==
    /\ pc = "thrown"
    /\ outcome.error = <<"Failed to fetch">>
    /\ reads = 3
    /\ Len(observed) = 3
    /\ attempts = 2

(* ------------------------------------------------------------------ *)
(* Properties of handleRunAI's handling of the output                  *)
(* ------------------------------------------------------------------ *)

\* A single reference, or a non-empty sequence of references.
IsReferenceOutput(out) ==
    \/ out.t = "string"
    \/ /\ out.t = "array"
       /\ Len(out.a) > 0
       /\ \A i \in 1..Len(out.a) : out.a[i].t = "string"

\* C8: when the prediction succeeded with an output that is neither a string
\* nor a non-empty array of strings, the card shows the unexpected-format
\* error and nothing was downloaded, uploaded or written to the photo
\* document.
C8_BadOutputRejected ==
    ( /\ caller = "card"
      /\ pc = "returned"
      /\ ~IsReferenceOutput(outcome.value)
      /\ cpc # "await_run" ) =>
        /\ cardError = FormatMessage
        /\ downloads = <<>>
        /\ StoredPaths = {InputPath(1)}
        /\ photoDoc = InitialPhotoDoc

(* ------------------------------------------------------------------ *)
(* Properties of the orientation normalizer                            *)
(* ------------------------------------------------------------------ *)

\* Where the reference transform of EXIF orientation t puts pixel (x, y) of
\* a w x h image.
ReferenceCell(t, w, h, x, y) ==
    CASE t = 1 -> <<x, y>>
      [] t = 2 -> <<w - 1 - x, y>>
      [] t = 3 -> <<w - 1 - x, h - 1 - y>>
      [] t = 4 -> <<x, h - 1 - y>>
      [] t = 5 -> <<y, x>>
      [] t = 6 -> <<h - 1 - y, x>>
      [] t = 7 -> <<h - 1 - y, w - 1 - x>>
      [] t = 8 -> <<y, w - 1 - x>>
ReferenceImage(t, w, h) ==
    { [dx |-> ReferenceCell(t, w, h, x, y)[1],
       dy |-> ReferenceCell(t, w, h, x, y)[2], sx |-> x, sy |-> y] :
        x \in 0..(w - 1), y \in 0..(h - 1) }

Drawn == npc \in {"blob_wait", "done"} /\ orientation.kind = "callback"

\* C9: for every tag 1..8 the canvas is h x w for tags 5..8 and w x h
\* otherwise, every source pixel is on the canvas exactly once, and it is
\* where the reference transform of the tag puts it.
C9_MatchesReferenceTransform ==
    (Drawn /\ orientation.tag \in 1..8) =>
        /\ canvasW = (IF orientation.tag \in 5..8 THEN imgH ELSE imgW)
        /\ canvasH = (IF orientation.tag \in 5..8 THEN imgW ELSE imgH)
        /\ canvas = ReferenceImage(orientation.tag, imgW, imgH)
        /\ \A x \in 0..(imgW - 1), y \in 0..(imgH - 1) :
             Cardinality({ c \in canvas : c.sx = x /\ c.sy = y }) = 1
        /\ \A c, d \in canvas : (c.dx = d.dx /\ c.dy = d.dy) => c = d
C9_Witness ==
    /\ npc = "done"
    /\ settled = <<Resolved>>
    /\ orientation = Callback(6)
    /\ imgW = 2
    /\ imgH = 1
    /\ canvasW = 1
    /\ canvasH = 2
    /\ canvas = { [dx |-> 0, dy |-> 0, sx |-> 0, sy |-> 0],
                  [dx |-> 0, dy |-> 1, sx |-> 1, sy |-> 0] }

\* Files of C10: decodable files that do not start with FF D8, and JPEG
\* files with no APP1 segment or with an IFD0 that has no orientation entry.
C10_NoOrientationFiles ==
    OtherImageFiles
    \cup { JpegFile(app0, exif, data) :
             app0 \in App0Choices,
             exif \in { <<>> } \cup ExifChoices({ <<>>, <<<<271, 1>>>> }),
             data \in ScanData }

\* C10: for such a file, once getOrientation's reader has loaded it, the
\* callback was called with 1 and the canvas holds the image untransformed,
\* w x h.
C10_DefaultsToIdentity ==
    ( /\ file.bytes \in C10_NoOrientationFiles
      /\ npc \in {"blob_wait", "done", "stuck"}
      /\ orientation.kind # "none" )
    => /\ orientation = Callback(1)
       /\ canvasW = imgW
       /\ canvasH = imgH
       /\ canvas = ReferenceImage(1, imgW, imgH)

\* C11: for a decodable file whose metadata block is damaged (wrong
\* identifier, IFD offset behind the end of the buffer, entry count larger
\* than the bytes left), once getOrientation's reader has loaded it the scan
\* has not thrown: the callback was called with 1 and the canvas holds the
\* image untransformed.
C11_DamagedMetadataFailsSoft ==
    ( /\ file.bytes \in DamagedJpegFiles
      /\ npc \in {"blob_wait", "done", "stuck"}
      /\ orientation.kind # "none" )
    => /\ orientation = Callback(1)
       /\ npc # "stuck"
       /\ canvasW = imgW
       /\ canvasH = imgH
       /\ canvas = ReferenceImage(1, imgW, imgH)

\* The rejections of a file that cannot be read or decoded, and of an image
\* that cannot be re-encoded.
DecodeErrors == { Rejected("Failed to read file"), Rejected("Failed to load image") }
EncodeError == Rejected("Failed to create blob from canvas")

\* C12: the promise settles at most once; a file that is no decodable image
\* ends in a decode error; a call that ended before the image was drawn was
\* rejected; when toBlob produced no blob the promise is rejected with the
\* encode error; and it resolves only with an encoded blob of a drawn image.
C12_FailuresReject ==
    /\ Len(settled) <= 1
    /\ settled # <<>> => npc = "done"
    /\ (npc = "done" /\ ~file.image) => settled[1] \in DecodeErrors
    /\ (npc = "done" /\ ~Drawn) =>
           settled[1] \in DecodeErrors \cup {Rejected("Failed to get canvas context")}
    /\ blob = "null" => settled = <<EncodeError>>
    /\ (settled # <<>> /\ settled[1] = Resolved) =>
           (file.image /\ Drawn /\ blob = "png")
C12_Witness ==
    /\ npc = "done"
    /\ file.image
    /\ Drawn
    /\ blob = "null"
    /\ settled = <<EncodeError>>

(* ------------------------------------------------------------------ *)
(* Properties of concurrent invocations                                *)
(* ------------------------------------------------------------------ *)

\* The number of i in lo..hi whose status is not terminal.
RECURSIVE Unfinished(_, _, _)
Unfinished(statuses, lo, hi) ==
    IF lo > hi THEN 0
    ELSE (IF statuses[lo] \in TerminalStatuses THEN 0 ELSE 1)
         + Unfinished(statuses, lo + 1, hi)

\* What an invocation that runs alone shows, given the responses its own
\* job served (the create response first): the callback got exactly their
\* statuses; the counter is the number of unfinished status reads (less the
\* one whose wait is still running); and the outcome is the output of the
\* read that said 'succeeded', the failure of the read that said 'failed'
\* or 'canceled', the timeout after maxAttempts reads, or the error of a
\* request that failed.
AsAlone(at, att, statuses, last, log, out) ==
    LET n == Len(statuses)
        waiting == Unfinished(statuses, 2, n)
        ended == n >= 2 /\ statuses[n] \in TerminalStatuses
    IN  /\ log = statuses
        /\ att = waiting - (IF at = "sleep" THEN 1 ELSE 0)
        /\ at \in {"idle", "create_wait"} => (n = 0 /\ att = 0)
        /\ at \in {"get_wait", "sleep"} => (n >= 1 /\ ~ended /\ att < maxAttempts)
        /\ out.kind = "pending" <=> at \notin {"returned", "thrown"}
        /\ ended =>
             \/ statuses[n] = "succeeded" /\ at = "returned" /\ out = Returned(last.output)
             \/ statuses[n] # "succeeded" /\ at = "thrown"
                  /\ out = Thrown(FailureMessage(last))
        /\ (at = "returned" \/ (at = "thrown" /\ out.error[1] = "Replicate prediction "))
             => ended
        /\ (at = "thrown" /\ ~ended) =>
             \/ n = 0 /\ out.error \in CreateRequestErrors
             \/ n >= 1 /\ out.error \in GetRequestErrors
             \/ n >= 1 /\ out.error = TimeoutMessage /\ att = maxAttempts

\* C13: whatever the interleaving, each invocation's counter, callback log
\* and outcome are those of an invocation running alone on the responses of
\* its own job, and its job served no response to anyone else.
C13_InvocationsIndependent ==
    \A r \in Runs :
        LET run == runs[r] IN
        /\ AsAlone(run.pc, run.attempts,
                   [i \in 1..Len(run.served) |-> run.served[i].status],
                   run.job, run.progress, run.outcome)
        /\ \A i \in 1..Len(run.served) :
             run.served[i].status = "succeeded" =>
                 run.served[i].output = OutputOf(r)
        /\ run.outcome.kind = "returned" => run.outcome.value = OutputOf(r)
\* Both invocations are in their loops, one far ahead of the other, and
\* then one times out while the other has returned its own output.
C13_Witness ==
    /\ runs["a"].pc = "thrown"
    /\ runs["a"].outcome = Thrown(TimeoutMessage)
    /\ runs["a"].attempts = maxAttempts
    /\ runs["b"].pc = "returned"
    /\ runs["b"].outcome = Returned(OutputOf("b"))
    /\ runs["b"].attempts = 1

\* The same description holds of the single invocation of the dashboard.
SoloAsAlone ==
    hasProgress => AsAlone(pc, attempts, observed, job, progress, outcome)

(* ------------------------------------------------------------------ *)
(* Properties of the card's delete handlers                            *)
(* ------------------------------------------------------------------ *)

\* The paths of the blobs that belong to photo p1: its input image and the
\* outputs its AI runs uploaded.
PhotoBlobPaths == {InputPath(1)} \cup { AiPath(ts) : ts \in Times }

\* The confirmed handler began when no AI run was under way, and none has
\* run since.
NoRunSinceConfirm == cpcAtConfirm \in {"idle", "done"} /\ cpc = cpcAtConfirm

\* C14: once a confirmed handleDeleteInput has completed without an error
\* (every AI run on the photo having ended before it was confirmed), the
\* photo document is gone and storage holds no blob of the photo.
C14_DeleteInputLeavesNothing ==
    (dpc = "input_done" /\ NoRunSinceConfirm) =>
        /\ ~photoDoc.exists
        /\ StoredPaths \cap PhotoBlobPaths = {}

\* A step of handleDeleteAi: a click that runs it, or one of its awaits
\* settling.
DeleteAiStep ==
    \/ showDeleteConfirm # "ai" /\ showDeleteConfirm' = "ai"
    \/ dpc \notin {"ai_blob", "ai_doc"} /\ dpc' \in {"ai_blob", "ai_doc"}
    \/ dpc \in {"ai_blob", "ai_doc"} /\ dpc' # dpc

\* The blobs at the photo's input path.
InputBlobs(store) == { b \in store : b.path = InitialPhotoDoc.storagePath }

\* C15: no step of handleDeleteAi touches the input blob, deletes the
\* document or changes its url, storagePath and uploadedAt; when the handler
\* succeeds the document exists, its aiOutputUrl, aiOutputStoragePath and
\* aiProcessedAt are null and so is the card's aiOutputUrl.
C15_DeleteAiKeepsInput ==
    [][ DeleteAiStep =>
          /\ InputBlobs(storage') = InputBlobs(storage)
          /\ photoDoc'.exists = photoDoc.exists
          /\ photoDoc'.url = photoDoc.url
          /\ photoDoc'.storagePath = photoDoc.storagePath
          /\ photoDoc'.uploadedAt = photoDoc.uploadedAt
          /\ dpc' = "ai_done" =>
               /\ photoDoc'.exists
               /\ photoDoc'.aiOutputUrl = NullUrl
               /\ photoDoc'.aiOutputStoragePath = NoPath
               /\ ~photoDoc'.aiProcessed
               /\ aiOutputUrl' = NullUrl ]_vars
\* The AI run completed, the card saw the new document, and a confirmed
\* handleDeleteAi deleted the output blob and cleared the fields.
C15_Witness ==
    /\ dpc = "ai_done"
    /\ cardStatus = <<"Completed!">>
    /\ HasAiOutputPath(target)
    /\ target.aiOutputStoragePath \notin StoredPaths
    /\ InitialPhotoDoc.storagePath \in StoredPaths
    /\ photoDoc = [InitialPhotoDoc EXCEPT !.aiProcessed = FALSE]
    /\ aiOutputUrl = NullUrl
    /\ showDeleteConfirm = "null"
    /\ ~deletingAi

\* A step of handleRemoveFromDashboard: a click that runs it, or its
\* deleteDoc settling.
RemoveStep ==
    \/ showDeleteConfirm # "remove" /\ showDeleteConfirm' = "remove"
    \/ dpc # "remove_doc" /\ dpc' = "remove_doc"
    \/ dpc = "remove_doc" /\ dpc' # dpc

\* C16: no step of handleRemoveFromDashboard changes the blobs in storage;
\* the document is deleted when the handler succeeds and is left as it was
\* otherwise.
C16_RemoveKeepsBlobs ==
    [][ RemoveStep =>
          /\ storage' = storage
          /\ dpc' = "remove_done" => ~photoDoc'.exists
          /\ dpc' # "remove_done" => photoDoc' = photoDoc ]_vars
\* The photo was processed, then removed from the dashboard: the document
\* is gone, the input blob and the AI output are still stored.
C16_Witness ==
    /\ dpc = "remove_done"
    /\ ~photoDoc.exists
    /\ cardStatus = <<"Completed!">>
    /\ InitialPhotoDoc.storagePath \in StoredPaths
    /\ storagePath \in StoredPaths
    /\ storagePath \in { AiPath(ts) : ts \in Times }

(* ------------------------------------------------------------------ *)
(* Properties of the download route and the collage page               *)
(* ------------------------------------------------------------------ *)

\* C17: the response the GET handler returns is 404 'Photo not found' when
\* the document does not exist, 404 'AI output not available for this photo'
\* when its aiOutputUrl is null or absent, a redirect to the aiOutputUrl the
\* document has at that moment otherwise, and 500 when the lookup threw; no
\* step of the handler changes a document.
C17_DownloadResponses ==
    [][ rpc' # rpc =>
          /\ photoDoc' = photoDoc
          /\ aiResponses' = aiResponses
          /\ rpc = "get_wait" =>
               \/ /\ response'.status = 500
                  /\ response'.error \in LookupErrors
               \/ /\ ~photoDoc.exists
                  /\ response' = JsonResponse("Photo not found", 404)
               \/ /\ photoDoc.exists
                  /\ photoDoc.aiOutputUrl = NullUrl
                  /\ response' =
                       JsonResponse("AI output not available for this photo", 404)
               \/ /\ photoDoc.exists
                  /\ photoDoc.aiOutputUrl # NullUrl
                  /\ response'.status \in 300..399
                  /\ response'.location = photoDoc.aiOutputUrl ]_vars
\* A request made after the AI run saved its output was redirected to it.
C17_Witness ==
    /\ rpc = "idle"
    /\ photoDoc.exists
    /\ photoDoc.aiOutputUrl # NullUrl
    /\ response.status = 307
    /\ response.location = photoDoc.aiOutputUrl
    /\ response.location.path \in StoredPaths

\* The session's documents as they are now.
SessionDocs == OtherPhotoDocs \cup (IF photoDoc.exists THEN {photoDoc} ELSE {})

\* list holds exactly the documents of docs that have a truthy aiOutputUrl,
\* each once, the later uploads first.
IsCollageOf(list, docs) ==
    /\ { list[i] : i \in 1..Len(list) } =
         { ToPhoto(d) : d \in { e \in docs : e.aiOutputUrl # NullUrl } }
    /\ \A i, j \in 1..Len(list) : i < j => list[i].uploadedAt > list[j].uploadedAt

\* C18: every snapshot leaves the collage page with exactly the session's
\* documents that have an aiOutputUrl, ordered by uploadedAt descending; so a
\* photo whose output handleDeleteAi removed, or whose document was deleted,
\* is not in the list after the next snapshot.
C18_CollageShowsAiPhotos ==
    [][ (collagePhotos' # collagePhotos \/ collageLoading' # collageLoading) =>
          /\ ~collageLoading'
          /\ IsCollageOf(collagePhotos', SessionDocs)
          /\ photoDoc' = photoDoc ]_vars
\* The photo's output was saved, then removed by handleDeleteAi, and the
\* snapshot after that left the collage with the two other AI photos.
C18_Witness ==
    /\ dpc = "ai_done"
    /\ cardStatus = <<"Completed!">>
    /\ photoDoc.exists
    /\ ~collageLoading
    /\ collagePhotos = << ToPhoto(OtherPhotoDoc("p2", 3, TRUE)),
                          ToPhoto(OtherPhotoDoc("p0", 1, TRUE)) >>
    /\ aiPhotos = collagePhotos

(* ------------------------------------------------------------------ *)
(* Properties of the order of handleRunAI's steps                      *)
(* ------------------------------------------------------------------ *)

\* C19: when the photo document carries an aiOutputUrl, the card's
\* prediction has succeeded, its output was fetched and the download step is
\* behind, and the fetched image is stored at the document's
\* aiOutputStoragePath, a path under stant_images/ai/{sessionId}/ whose
\* download URL is the aiOutputUrl; and every aiResponses record with status
\* 'succeeded' names the output the document already carries.
C19_StepsInOrder ==
    /\ photoDoc.aiOutputUrl # NullUrl =>
         /\ caller = "card"
         /\ pc = "returned"
         /\ job.status = "succeeded"
         /\ downloads = <<imageUrl>>
         /\ cpc \in {"await_add", "await_failadd", "done"}
         /\ photoDoc.aiOutputStoragePath.dir = "stant_images/ai"
         /\ photoDoc.aiOutputStoragePath.session = SessionId
         /\ [path |-> photoDoc.aiOutputStoragePath, content |-> imageUrl] \in storage
         /\ photoDoc.aiOutputUrl = DownloadUrl(photoDoc.aiOutputStoragePath)
         /\ photoDoc.aiProcessed
    /\ \A i \in 1..Len(aiResponses) :
         aiResponses[i].status = "succeeded" =>
             /\ photoDoc.aiOutputUrl # NullUrl
             /\ aiResponses[i].outputImageUrl = photoDoc.aiOutputUrl
             /\ aiResponses[i].outputImageStoragePath = photoDoc.aiOutputStoragePath
\* A run that went through: the record is written and the document names
\* the stored output.
C19_Witness ==
    /\ cpc = "done"
    /\ cardStatus = <<"Completed!">>
    /\ Len(aiResponses) = 1
    /\ aiResponses[1].status = "succeeded"
    /\ photoDoc.aiOutputUrl = DownloadUrl(AiPath(2))
    /\ AiPath(2) \in StoredPaths

(* ------------------------------------------------------------------ *)
(* Properties of the mobile upload handler                             *)
(* ------------------------------------------------------------------ *)

\* A step of handleFileSelect has failed: the orientation scan threw, the
\* normalizer rejected, or the handler ended without adding a document.
UploadStepFailed ==
    \/ npc = "stuck"
    \/ settled # <<>> /\ settled[1] # Resolved
    \/ upc = "done" /\ added = <<>>

\* Nothing the handler waits for can still happen.
UploadAtRest == upc = "done" \/ (upc = "await_normalize" /\ npc = "stuck")

\* C20: a document is added only after the normalizer resolved and the blob
\* was uploaded; when a step failed no document is added and uploadSuccess
\* is false; and once the handler is at rest after a failure the error is
\* shown and uploading is false again.
C20_UploadReportsFailures ==
    /\ added # <<>> =>
         /\ Len(added) = 1
         /\ settled = <<Resolved>>
         /\ added[1].storagePath = uploadPath
         /\ uploadPath \in StoredPaths
    /\ UploadStepFailed => (added = <<>> /\ ~uploadSuccess)
    /\ upc = "done" => ~uploading
    /\ (UploadStepFailed /\ UploadAtRest) => (uploadError # NoError /\ ~uploading)

(* ------------------------------------------------------------------ *)
(* Properties of the requests of one runReplicate run                  *)
(* ------------------------------------------------------------------ *)

\* Requests of the run that failed: a failed request ends the run.
FailedRequests ==
    IF pc = "thrown" /\ outcome.error \in CreateRequestErrors \cup GetRequestErrors
      THEN 1 ELSE 0
\* Requests issued whose response has not come back.
Outstanding == creates + reads - Len(observed) - FailedRequests

C22_RouteAnswers ==
    /\ Len(upstream) <= 1
    /\ upstream # <<>> =>
         /\ body.kind = "object"
         /\ ~Falsy(token)
         /\ \/ body.action = "create" /\ upstream = <<CreateRequest>>
            \/ /\ body.action = "get"
               /\ ~Falsy(body.predictionId)
               /\ upstream = <<GetRequest(body.predictionId)>>
    /\ reply.via = "catch" => reply.status = 500
    /\ (qpc = "done" /\ body.kind # "object") => reply.via = "catch"
    /\ (qpc = "done" /\ body.kind = "object") =>
         /\ Falsy(token) =>
              /\ reply = RouteJson(<<"Replicate API token not configured">>, 500)
              /\ upstream = <<>>
         /\ (~Falsy(token) /\ body.action = "get" /\ Falsy(body.predictionId)) =>
              /\ reply = RouteJson(<<"Prediction ID is required">>, 400)
              /\ upstream = <<>>
         /\ (~Falsy(token) /\ body.action \notin {"create", "get"}) =>
              /\ reply.status = 400
              /\ reply.error # <<>>
              /\ upstream = <<>>
         /\ (reply.via = "try" /\ upstreamResponse # NoUpstreamResponse
                /\ ~Ok(upstreamResponse.status)) =>
              /\ reply.status = upstreamResponse.status
              /\ reply.error # <<>>
         /\ (reply.via = "try" /\ upstreamResponse # NoUpstreamResponse
                /\ Ok(upstreamResponse.status)) =>
              reply = RouteData
\* A status read of a prediction the upstream API does not know: its 404 is
\* passed on.
C22_Witness ==
    /\ qpc = "done"
    /\ token = "r8_token"
    /\ upstream = <<GetRequest("pred1")>>
    /\ upstreamResponse.status = 404
    /\ reply = RouteJson(<<"Failed to get prediction: ", "upstream">>, 404)

(* ------------------------------------------------------------------ *)
(* Properties of the confirmation of the card's destructive actions    *)
(* ------------------------------------------------------------------ *)

\* The positions at which each handler is past its confirmation.
InputRunning == {"input_blob", "input_ai", "input_doc"}
AiRunning == {"ai_blob", "ai_doc"}
RemoveRunning == {"remove_doc"}
\* A step that removes a blob, deletes the document or clears its AI fields.
RemovesBlob == \E b \in storage : b.path \notin { c.path : c \in storage' }
DeletesDoc == photoDoc.exists /\ ~photoDoc'.exists
ClearsAiFields ==
    /\ photoDoc'.exists
    /\ photoDoc.aiOutputUrl # NullUrl
    /\ photoDoc'.aiOutputUrl = NullUrl

\* C23: a handler gets past its confirmation only in a call made while
\* showDeleteConfirm is its own kind; blobs are removed, the document deleted
\* and its AI fields cleared only by a handler past its confirmation; a call
\* that sets showDeleteConfirm to a kind, and handleCancelDelete setting it
\* to null, change neither storage nor the document nor start a handler.
C23_DeletionsAreConfirmed ==
    [][ /\ (dpc \notin InputRunning /\ dpc' \in InputRunning) =>
             (showDeleteConfirm = "input" /\ showDeleteConfirm' = "input")
        /\ (dpc \notin AiRunning /\ dpc' \in AiRunning) =>
             (showDeleteConfirm = "ai" /\ showDeleteConfirm' = "ai")
        /\ (dpc \notin RemoveRunning /\ dpc' \in RemoveRunning) =>
             (showDeleteConfirm = "remove" /\ showDeleteConfirm' = "remove")
        /\ RemovesBlob => dpc \in {"input_blob", "input_ai", "ai_blob"}
        /\ DeletesDoc => dpc \in {"input_doc", "remove_doc"}
        /\ ClearsAiFields => dpc = "ai_doc"
        /\ dpc' # dpc =>
             (dpc \in InputRunning \cup AiRunning \cup RemoveRunning
                \/ ~(RemovesBlob \/ DeletesDoc \/ ClearsAiFields))
        /\ showDeleteConfirm' # showDeleteConfirm =>
             (showDeleteConfirm' = "null" \/ dpc' = dpc)
        /\ (showDeleteConfirm' # showDeleteConfirm /\ dpc' = dpc) =>
             /\ storage' = storage
             /\ photoDoc' = photoDoc
             /\ deleting' = deleting
             /\ deletingAi' = deletingAi
             /\ removingFromDashboard' = removingFromDashboard ]_vars
\* Delete input was asked for, cancelled, asked for again and confirmed:
\* the blob and the document are gone while the card still shows the
\* confirmation it was given.
C23_Witness ==
    /\ dpc = "input_done"
    /\ showDeleteConfirm = "input"
    /\ deleting
    /\ ~photoDoc.exists
    /\ InitialPhotoDoc.storagePath \notin StoredPaths

(* ------------------------------------------------------------------ *)
(* Properties of the ways handleRunAI ends                             *)
(* ------------------------------------------------------------------ *)

\* The positions inside the try block, and the guards' messages.
TryPositions ==
    {"await_run", "await_download", "await_upload", "await_url", "await_update",
     "await_add"}
GuardMessages ==
    { <<"Please enter a prompt">>, <<"Replicate model version not configured">> }
FailedRecords == { i \in 1..Len(aiResponses) : aiResponses[i].status = "failed" }

\* What holds in every state of a run of handleRunAI.
RunEndsClean ==
    /\ processing <=> cpc \in TryPositions \cup {"await_failadd"}
    /\ cpc = "done" => ~processing
    /\ caught # NoError =>
         /\ cpc \in {"await_failadd", "done"}
         /\ cardError = caught
         /\ cardStatus = <<"Failed">>
    /\ cpc = "await_failadd" => (caught # NoError /\ FailedRecords = {})
    /\ Cardinality(FailedRecords) <= 1
    /\ \A i \in FailedRecords :
         /\ cpc = "done"
         /\ aiResponses[i] = FailedResponse(prompt, caught)
    /\ (cpc = "done" /\ caught = NoError) =>
         (cardError = NoError /\ cardStatus = <<"Completed!">>)
\* What holds of every step: a step fails only out of the try block, to the
\* one attempt at the failed record; that attempt ends the run whether or
\* not the record was saved, leaving the error shown; a click rejected by a
\* guard changes nothing but the error shown.
RunStepsClean ==
    /\ cpc' = "await_failadd" => (cpc \in TryPositions \/ cpc = "await_failadd")
    /\ cpc = "await_failadd" =>
         (cpc' \in {"await_failadd", "done"} /\ cardError' = cardError
            /\ cardStatus' = cardStatus)
    /\ (cpc = "idle" /\ cardError' \in GuardMessages /\ cardError' # cardError) =>
         /\ Trim(prompt) = <<>> \/ modelVersion = ""
         /\ cpc' = "idle"
         /\ UNCHANGED <<pollVars, processing, cardStatus, downloads, storage,
                        photoDoc, aiResponses>>
    /\ (cpc = "idle" /\ cpc' # "idle") =>
         (Trim(prompt) # <<>> /\ modelVersion # "")

\* C24: a run that passed the guards has processing false once it has ended;
\* a failed step sets the error, the status 'Failed' and attempts one failed
\* aiResponses record with the message; when that record cannot be saved the
\* run still ends, with the same error shown; a click the guards reject
\* issues no request and writes nothing.
C24_RunEndsClean == []RunEndsClean /\ [][RunStepsClean]_vars
\* The upload failed and the failed record could not be saved either.
C24_Witness ==
    /\ cpc = "done"
    /\ caught \in StorageErrors
    /\ downloads # <<>>
    /\ aiResponses = <<>>
    /\ cardError = caught
    /\ cardStatus = <<"Failed">>
    /\ ~processing

(* ------------------------------------------------------------------ *)
(* Properties of pollPrediction                                        *)
(* ------------------------------------------------------------------ *)

\* The reads that returned a terminal status.
TerminalReads == { i \in 1..Len(pObserved) : pObserved[i] \in TerminalStatuses }

\* C25: a terminal status is only ever the last one read, and the call has
\* then returned that read's prediction, failed and canceled included, with
\* no read issued after it; the call throws only the timeout error or a
\* failed request's; it throws the timeout error exactly when maxAttempts
\* reads were made and none was terminal; no call makes more reads.
C25_PollReturnsFirstTerminal ==
    /\ pReads <= pMaxAttempts
    /\ TerminalReads # {} =>
         /\ TerminalReads = {Len(pObserved)}
         /\ ppc = "returned"
         /\ pReads = Len(pObserved)
    /\ ppc = "returned" =>
         /\ TerminalReads # {}
         /\ pOutcome = PollReturned(pJob)
         /\ pJob.status = pObserved[Len(pObserved)]
    /\ ppc = "thrown" =>
         /\ pOutcome.kind = "thrown"
         /\ pOutcome.error \in {TimeoutMessage} \cup GetRequestErrors
         /\ pOutcome.error = TimeoutMessage =>
              (pReads = pMaxAttempts /\ Len(pObserved) = pMaxAttempts)
    /\ (ppc \in {"sleep", "get_wait"}) => pOutcome = NoPollOutcome
    /\ (ppc # "idle" /\ Len(pObserved) = pMaxAttempts /\ TerminalReads = {}) =>
         (ppc \in {"sleep", "thrown"} /\
            (ppc = "thrown" => pOutcome = PollThrown(TimeoutMessage)))
\* The third read found the prediction canceled: it is returned, not thrown.
C25_Witness ==
    /\ pMaxAttempts = 3
    /\ ppc = "returned"
    /\ pObserved = <<"starting", "processing", "canceled">>
    /\ pReads = 3
    /\ pOutcome.prediction.status = "canceled"
\* Three reads, none terminal: the timeout.
PollTimedOut ==
    /\ pMaxAttempts = 3
    /\ ppc = "thrown"
    /\ pReads = 3
    /\ pOutcome = PollThrown(TimeoutMessage)

(* ------------------------------------------------------------------ *)
(* Properties of the storage paths                                     *)
(* ------------------------------------------------------------------ *)

\* The clients whose uploadBytes has succeeded.
Stored == { c \in Clients : clients[c].pc \in {"await_url", "await_doc", "done"} }
Issued == { c \in Clients : clients[c].pc # "idle" }

\* C26: two uploads of different clients go to different paths; so the bytes
\* of every client whose upload succeeded are stored at its path, and no
\* two documents name the same blob.
C26_PathsDeconflict ==
    /\ \A c, d \in Issued : c # d => clients[c].path # clients[d].path
    /\ \A c \in Stored : [path |-> clients[c].path, content |-> BytesOf(c)] \in storage
    /\ \A r, q \in records : r # q => r.storagePath # q.storagePath
\* The same, of uploads that fell into different milliseconds.
DistinctTimesDeconflict ==
    (\A c, d \in Issued :
        (c # d /\ (c \in MobileClients <=> d \in MobileClients)) =>
            clients[c].timestamp # clients[d].timestamp)
    => C26_PathsDeconflict
\* Two phones uploaded in different milliseconds and both photo documents
\* were added.
DistinctTimesUploaded ==
    /\ clients["m1"].pc = "done"
    /\ clients["m2"].pc = "done"
    /\ clients["m1"].timestamp # clients["m2"].timestamp
    /\ Cardinality(records) = 2

(* ------------------------------------------------------------------ *)
(* Properties of the settling of normalizeImageOrientation             *)
(* ------------------------------------------------------------------ *)

\* C27: for every file the promise is settled after finitely many events,
\* and resolve or reject is called on it once and no more.
C27_SettlesOnce == <>(settled # <<>>) /\ [](Len(settled) <= 1)
\* The same, of the calls whose getOrientation did not throw.
SettlesUnlessThrown ==
    <>(settled # <<>> \/ npc = "stuck") /\ [](Len(settled) <= 1)

====
